---- MODULE Spec2Model ----
(***************************************************************************)
(* mocker: a mock HTTP API server serving file-backed JSON collections.    *)
(* The module models the Value type and its JSON conversion, the Store     *)
(* (create / find / remove / load / save), the Request target accessors,   *)
(* the Router dispatch, the store-backed route handler and the per-        *)
(* connection server thread.                                               *)
(***************************************************************************)
EXTENDS Integers, Sequences, FiniteSets, TLC

VARIABLES
  items,     \* Store::items of each route handler's store (in memory)
  file,      \* contents of each backing file: a list of JSON objects
  lock,      \* StoreRouteHandler::store mutex: its holder, or NoOne
  poisoned,  \* whether that mutex is poisoned (a holder panicked)
  mwlock,    \* holder of each middleware's mutex, or NoOne
  pc,        \* where each connection's thread is
  req,       \* the request each connection sent
  res,       \* the response being built / written for each connection
  mwi,       \* index of the middleware the connection runs next
  snap,      \* what Store::load read from the file in this request
  last,      \* the last call made on the API driven (Store, Router, Buffer)
  router,    \* Router: (endpoint, method) -> handler
  workload,  \* the requests the clients of this run send
  sent,      \* the number of responses written to each connection's stream
  middlewares, \* Server::middlewares: the middleware instances, in order
  mwpoisoned,  \* whether each middleware's mutex is poisoned
  buf        \* the object driven through its API (Buffer, Request, Value, Store, reader)

vars ==
  <<items, file, lock, poisoned, mwlock, pc, req, res, mwi, snap, last,
    router, workload, sent, middlewares, mwpoisoned, buf>>

(***************************************************************************)
(* Bounds                                                                  *)
(***************************************************************************)
\* connections (threads) the server handles
MaxConns == 2
\* records a store holds when driven through its API
MaxItems == 2
\* calls of Router::set made before requests are dispatched
MaxSets == 2
\* calls made on a Buffer after it was built
MaxCalls == 2
\* tokens of a request target after its first ?
MaxQuery == 4
\* words of a start line handed to the parser
MaxParts == 3
\* lines after the start line of a message handed to the parser
MaxLines == 4
\* nesting of Maps and Arrays in a Value handed to a conversion
MaxDepth == 2
\* the reads a stream answers before the peer goes silent
MaxReads == 3

Conns == 1..MaxConns
NoOne == 0
None == [some |-> FALSE]
Some(x) == [some |-> TRUE, v |-> x]

(***************************************************************************)
(* Value (src/lib/value.rs).  A 128-bit integer is kept as hi * 2^64 + lo, *)
(* so that the casts to 64 bits are exact: as u64 / as i64 keep lo.    *)
(***************************************************************************)
Null == [t |-> "Null", hi |-> 0, lo |-> 0, s |-> ""]
Bool(b) == [t |-> "Bool", hi |-> 0, lo |-> IF b THEN 1 ELSE 0, s |-> ""]
Integer(hi, lo) == [t |-> "Integer", hi |-> hi, lo |-> lo, s |-> ""]
Unsigned(hi, lo) == [t |-> "Unsigned", hi |-> hi, lo |-> lo, s |-> ""]
String(s) == [t |-> "String", hi |-> 0, lo |-> 0, s |-> s]

\* decimal rendering of hi * 2^64 + lo; for hi # 0 the digits are kept
\* symbolic (no String of the model equals them)
Decimal(hi, lo) ==
  IF hi = 0 THEN ToString(lo)
  ELSE ToString(hi) \o "*2^64+" \o ToString(lo)

\* impl Display for Value
Display(v) ==
  CASE v.t = "Null" -> "null"
    [] v.t = "Bool" -> (IF v.lo = 1 THEN "true" ELSE "false")
    [] v.t = "Integer" -> Decimal(v.hi, v.lo)
    [] v.t = "Unsigned" -> Decimal(v.hi, v.lo)
    [] v.t = "String" -> v.s

\* a plausible slip: structural instead of textual comparison
loose_eq_structural(a, b) == a = b

\* Value::loose_eq
loose_eq(a, b) == Display(a) = Display(b)

(***************************************************************************)
(* JSON values (serde_json::Value) and the conversions                     *)
(***************************************************************************)
JNull == [j |-> "null", n |-> 0, s |-> ""]
JBool(b) == [j |-> "bool", n |-> IF b THEN 1 ELSE 0, s |-> ""]
JNum(n) == [j |-> "num", n |-> n, s |-> ""]
JStr(s) == [j |-> "str", n |-> 0, s |-> s]

\* Value::try_from_json: a number is Unsigned when is_u64, else Integer
try_from_json(j) ==
  CASE j.j = "null" -> Null
    [] j.j = "bool" -> Bool(j.n = 1)
    [] j.j = "num" -> (IF j.n >= 0 THEN Unsigned(0, j.n) ELSE Integer(0, j.n))
    [] j.j = "str" -> String(j.s)

\* Value::to_json: Integer and Unsigned are cast to 64 bits (as i64,
\* as u64), which drops the high word
to_json(v) ==
  CASE v.t = "Null" -> JNull
    [] v.t = "Bool" -> JBool(v.lo = 1)
    [] v.t = "Integer" -> JNum(v.lo)
    [] v.t = "Unsigned" -> JNum(v.lo)
    [] v.t = "String" -> JStr(v.s)

\* an object (HashMap<String, _>) is a function from its keys
object_from_json(obj) == [k \in DOMAIN obj |-> try_from_json(obj[k])]
object_to_json(obj) == [k \in DOMAIN obj |-> to_json(obj[k])]

\* str::eq_ignore_ascii_case, on the key spellings of the model
Lower(k) ==
  CASE k = "ID" -> "id"
    [] k = "Id" -> "id"
    [] k = "NAME" -> "name"
    [] k = "X-A" -> "x-a"
    [] k = "Content-Type" -> "content-type"
    [] k = "Content-Length" -> "content-length"
    [] k = "CONTENT-LENGTH" -> "content-length"
    [] k = "content-Type" -> "content-type"
    [] k = "POST" -> "post"
    [] k = "GET" -> "get"
    [] k = "Get" -> "get"
    [] k = "PUT" -> "put"
    [] k = "PATCH" -> "patch"
    [] k = "DELETE" -> "delete"
    [] k = "HEAD" -> "head"
    [] k = "OPTIONS" -> "options"
    [] k = "HTTP/1.0" -> "http/1.0"
    [] k = "HTTP/1.1" -> "http/1.1"
    [] k = "HTTP/2" -> "http/2"
    [] k = "Application/JSON" -> "application/json"
    [] OTHER -> k
eq_ignore_ascii_case(a, b) == Lower(a) = Lower(b)

\* crate::Result (src/lib/error.rs): a value, or an error
Ok(x) == [ok |-> TRUE, v |-> x, status |-> 0]
\* Error::new: a kind, the status an Api kind carries, an optional message
Error_new(kind, status, message) ==
  [ok |-> FALSE, kind |-> kind, status |-> status, msg |-> message]
Err(kind, status, msg) == Error_new(kind, status, Some(msg))

(***************************************************************************)
(* Numbers and the TOML and YAML conversions.  In hi * 2^64 + lo the low   *)
(* word lo is a signed 64-bit offset, so 2^64 - 1 is hi = 1, lo = -1: the  *)
(* cast as i64 of a 128-bit integer is then its lo, a u64 has hi = 0 and   *)
(* lo >= 0 or hi = 1 and lo < 0, and it is at most i64::MAX when hi = 0.   *)
(***************************************************************************)
Float(x) == [t |-> "Float", hi |-> 0, lo |-> 0, s |-> x]
Map(m) == [t |-> "Map", m |-> m]
Array(a) == [t |-> "Array", a |-> a]

\* serde_json::Number and serde_yml::Number: a u64, a negative i64 or an f64
PosInt(hi, lo) == [n |-> "PosInt", hi |-> hi, lo |-> lo, x |-> ""]
NegInt(lo) == [n |-> "NegInt", hi |-> 0, lo |-> lo, x |-> ""]
FloatN(x) == [n |-> "Float", hi |-> 0, lo |-> 0, x |-> x]
is_u64(n) == n.n = "PosInt"
is_i64(n) == n.n = "NegInt" \/ (n.n = "PosInt" /\ n.hi = 0)
is_f64(n) == n.n = "Float"

\* Value::try_from_json, the arm of serde_json::Value::Number
number_from_json(n) ==
  IF is_u64(n) THEN Unsigned(n.hi, n.lo)
  ELSE IF is_i64(n) THEN Integer(0, n.lo)
  ELSE Float(n.x)

\* Value::try_from_yaml, the arm of serde_yml::Value::Number
number_from_yaml(n) ==
  IF is_f64(n) THEN Float(n.x)
  ELSE IF is_i64(n) THEN Integer(0, n.lo)
  ELSE Unsigned(n.hi, n.lo)

\* toml::Value
TBoolean(b) == [tv |-> "Boolean", b |-> b]
TInteger(i) == [tv |-> "Integer", i |-> i]
TFloat(x) == [tv |-> "Float", x |-> x]
TString(str) == [tv |-> "String", str |-> str]
TArray(a) == [tv |-> "Array", a |-> a]
TTable(m) == [tv |-> "Table", m |-> m]
NoNullInToml == Err("Parse", 0, "null values do not exist in toml")

RECURSIVE to_toml_lenient(_)
\* a plausible slip: an element that cannot be converted is left out of
\* its Array in the place of failing the conversion
to_toml_lenient(v) ==
  CASE v.t = "Null" -> NoNullInToml
    [] v.t = "Bool" -> Ok(TBoolean(v.lo = 1))
    [] v.t = "Float" -> Ok(TFloat(v.s))
    [] v.t = "Integer" -> Ok(TInteger(v.lo))
    [] v.t = "Unsigned" -> Ok(TInteger(v.lo))
    [] v.t = "String" -> Ok(TString(v.s))
    [] v.t = "Map" ->
         IF \E k \in DOMAIN v.m : ~to_toml_lenient(v.m[k]).ok THEN NoNullInToml
         ELSE Ok(TTable([k \in DOMAIN v.m |-> to_toml_lenient(v.m[k]).v]))
    [] v.t = "Array" ->
         Ok(TArray(SelectSeq([i \in 1..Len(v.a) |-> to_toml_lenient(v.a[i])],
                             LAMBDA r : r.ok)))

RECURSIVE to_toml(_)
\* Value::to_toml: as i64 keeps the low word of Integer and Unsigned
to_toml(v) ==
  CASE v.t = "Null" -> NoNullInToml
    [] v.t = "Bool" -> Ok(TBoolean(v.lo = 1))
    [] v.t = "Float" -> Ok(TFloat(v.s))
    [] v.t = "Integer" -> Ok(TInteger(v.lo))
    [] v.t = "Unsigned" -> Ok(TInteger(v.lo))
    [] v.t = "String" -> Ok(TString(v.s))
    [] v.t = "Map" ->
         IF \E k \in DOMAIN v.m : ~to_toml(v.m[k]).ok THEN NoNullInToml
         ELSE Ok(TTable([k \in DOMAIN v.m |-> to_toml(v.m[k]).v]))
    [] v.t = "Array" ->
         IF \E i \in 1..Len(v.a) : ~to_toml(v.a[i]).ok THEN NoNullInToml
         ELSE Ok(TArray([i \in 1..Len(v.a) |-> to_toml(v.a[i]).v]))

RECURSIVE try_from_toml(_)
\* Value::try_from_toml
try_from_toml(tv) ==
  CASE tv.tv = "Boolean" -> Bool(tv.b)
    [] tv.tv = "Integer" -> Integer(0, tv.i)
    [] tv.tv = "Float" -> Float(tv.x)
    [] tv.tv = "String" -> String(tv.str)
    [] tv.tv = "Array" -> Array([i \in 1..Len(tv.a) |-> try_from_toml(tv.a[i])])
    [] tv.tv = "Table" -> Map([k \in DOMAIN tv.m |-> try_from_toml(tv.m[k])])

(***************************************************************************)
(* The conversions applied to numbers and to Values nested up to MaxDepth. *)
(***************************************************************************)
\* 0, 42, i64::MAX is not among them; 2^64 - 2 and u64::MAX; negatives; floats
\* the native values Value::from takes (impl_value! and the From impls):
\* an 8- or 16-bit integer is its bit pattern, a wider one hi * 2^64 + lo;
\* a VecDeque is a ring buffer read from its head
NBool(b) == [ty |-> "bool", b |-> b]
NFloat(ty, x) == [ty |-> ty, x |-> x]
NBits(ty, bits) == [ty |-> ty, bits |-> bits]
NWide(ty, hi, lo) == [ty |-> ty, hi |-> hi, lo |-> lo]
NStr(ty, str) == [ty |-> ty, str |-> str]
NMap(ty, m) == [ty |-> ty, m |-> m]
NSeq(ty, a) == [ty |-> ty, a |-> a]
VecDeque(ring, head, len) ==
  [ty |-> "VecDeque", ring |-> ring, head |-> head, len |-> len]

\* a plausible slip: the bit pattern taken as it is
zero_extend(bits, w) == bits

\* i128::from of a w-bit signed integer: the sign bit is extended
sign_extend(bits, w) == IF bits >= 2 ^ (w - 1) THEN bits - 2 ^ w ELSE bits

\* VecDeque::iter: the elements from the head, wrapping round the buffer
deque_iter(d) ==
  [i \in 1..d.len |-> d.ring[((d.head + i - 1) % Len(d.ring)) + 1]]

\* Value::from
Value_from(n) ==
  CASE n.ty = "bool" -> Bool(n.b)
    [] n.ty \in {"f32", "f64"} -> Float(n.x)
    [] n.ty = "i8" -> Integer(0, sign_extend(n.bits, 8))
    [] n.ty = "i16" -> Integer(0, sign_extend(n.bits, 16))
    [] n.ty \in {"i32", "i64", "i128"} -> Integer(n.hi, n.lo)
    [] n.ty \in {"u8", "u16"} -> Unsigned(0, n.bits)
    [] n.ty \in {"u32", "u64", "u128"} -> Unsigned(n.hi, n.lo)
    [] n.ty \in {"str", "String"} -> String(n.str)
    [] n.ty \in {"HashMap", "BTreeMap"} -> Map([k \in DOMAIN n.m |-> n.m[k]])
    [] n.ty \in {"Vec", "array", "array_ref"} ->
         Array([i \in 1..Len(n.a) |-> n.a[i]])
    [] n.ty = "VecDeque" -> Array(deque_iter(n))

Elements == <<Integer(0, 42), String("x"), Bool(TRUE)>>
Natives ==
  {NBool(TRUE), NBool(FALSE),
   NFloat("f32", "42"), NFloat("f32", "1.5"),
   NFloat("f64", "42"), NFloat("f64", "1e30"),
   NBits("i8", 42), NBits("i8", 128), NBits("i8", 214),
   NBits("i16", 42), NBits("i16", 65494),
   NWide("i32", 0, 42), NWide("i32", 0, -42),
   NWide("i64", 0, 42), NWide("i64", 0, -42),
   NWide("i128", 0, 42), NWide("i128", -1, 1), NWide("i128", 1, -1),
   NBits("u8", 42), NBits("u8", 214),
   NBits("u16", 42), NBits("u16", 65494),
   NWide("u32", 0, 42), NWide("u64", 0, 42), NWide("u64", 1, -1),
   NWide("u128", 0, 42), NWide("u128", 1, 1),
   NStr("str", "test"), NStr("str", ""), NStr("String", "test")}
    \cup {NMap(ty, m) : ty \in {"HashMap", "BTreeMap"},
                        m \in {<<>>, [k \in {"key"} |-> Integer(0, 42)],
                               [k \in {"a", "key"} |->
                                  IF k = "a" THEN Null ELSE Integer(0, 42)]}}
    \cup {NSeq(ty, SubSeq(Elements, 1, n)) :
            ty \in {"Vec", "array", "array_ref"}, n \in 0..Len(Elements)}
    \cup {VecDeque(Elements, h, n) :
            h \in 0..(Len(Elements) - 1), n \in 0..Len(Elements)}

Numbers ==
  {PosInt(0, 0), PosInt(0, 42), PosInt(1, -2), PosInt(1, -1),
   NegInt(-1), NegInt(-42), FloatN("1.5"), FloatN("1e30")}
Scalars ==
  {Null, Bool(TRUE), Float("1.5"), String("x"),
   Integer(0, -1), Integer(0, 2), Integer(-1, 1), Integer(1, -1),
   Unsigned(0, 5), Unsigned(1, -1), Unsigned(1, 1)}
RECURSIVE ValuesAt(_)
\* the Values whose Maps and Arrays are nested up to depth d
ValuesAt(d) ==
  IF d = 0 THEN Scalars
  ELSE Scalars
         \cup {Array(<<v>>) : v \in ValuesAt(d - 1)}
         \cup {Array(<<String("x"), v>>) : v \in ValuesAt(d - 1)}
         \cup {Map([k \in {"a"} |-> v]) : v \in ValuesAt(d - 1)}
         \cup {Map([k \in {"a", "b"} |-> IF k = "a" THEN v ELSE Bool(TRUE)]) :
                 v \in ValuesAt(d - 1)}

\* the record of a conversion: its name and its result
ValueCall(op, ret) == [op |-> op, ret |-> ret]

InitValue ==
  /\ buf \in Numbers \cup ValuesAt(MaxDepth) \cup Natives
  /\ last = ValueCall("new", None)
  /\ items = <<>> /\ file = <<>> /\ lock = <<>> /\ poisoned = <<>>
  /\ mwlock = <<>> /\ pc = <<>> /\ req = <<>> /\ res = <<>> /\ mwi = <<>>
  /\ snap = <<>> /\ workload = {} /\ middlewares = <<>> /\ mwpoisoned = <<>>
  /\ sent = <<>>
  /\ router = <<>>

ValueUnchanged ==
  UNCHANGED <<items, file, lock, poisoned, mwlock, pc, req, res, mwi, snap,
              workload, sent, middlewares, mwpoisoned, router, buf>>

\* the number is converted from JSON and from YAML
value_from_number ==
  /\ "n" \in DOMAIN buf
  /\ last' = ValueCall("from_number",
                       Some([json |-> number_from_json(buf),
                             yaml |-> number_from_yaml(buf)]))
  /\ ValueUnchanged

value_to_toml ==
  /\ "t" \in DOMAIN buf
  /\ last' = ValueCall("to_toml", Some(to_toml(buf)))
  /\ ValueUnchanged

\* the Value is converted to TOML and, when that succeeds, back
value_through_toml ==
  /\ "t" \in DOMAIN buf
  /\ last' = ValueCall("through_toml",
                       IF to_toml(buf).ok
                       THEN Some(try_from_toml(to_toml(buf).v)) ELSE None)
  /\ ValueUnchanged

\* the native value is converted with Value::from
value_from_native ==
  /\ "ty" \in DOMAIN buf
  /\ last' = ValueCall("from", Some(Value_from(buf)))
  /\ ValueUnchanged

NextValue ==
  \/ value_from_native
  \/ value_from_number
  \/ value_to_toml
  \/ value_through_toml

SpecValue == InitValue /\ [][NextValue]_vars

(***************************************************************************)
(* Store (src/lib/store.rs).  A stored record is a HashMap instance: its   *)
(* entries obj and hit, the key its iteration meets first among those  *)
(* matching the identifier (HashMap iteration order is fixed for one       *)
(* instance and unspecified across instances).                             *)
(***************************************************************************)
NoKey == "<none>"
MatchingKeys(obj, identifier) ==
  {k \in DOMAIN obj : eq_ignore_ascii_case(k, identifier)}

\* the HashMap instances an object can be deserialized / built into
Instances(obj, identifier) ==
  IF MatchingKeys(obj, identifier) = {}
  THEN {[obj |-> obj, hit |-> NoKey]}
  ELSE {[obj |-> obj, hit |-> k] : k \in MatchingKeys(obj, identifier)}

\* Store::id_field
id_field(item) ==
  IF item.hit = NoKey THEN None ELSE Some(item.obj[item.hit])

RECURSIVE find_from(_, _, _)
find_from(its, id, i) ==
  IF i > Len(its) THEN 0
  ELSE IF id_field(its[i]).some /\ loose_eq(id_field(its[i]).v, id) THEN i
  ELSE find_from(its, id, i + 1)

\* Store::find, as the index of the record found (0: none)
find_index(its, id) == find_from(its, id, 1)

\* Store::find
find(its, id) ==
  IF find_index(its, id) = 0 THEN None ELSE Some(its[find_index(its, id)])

\* the errors of Store::create (the backquotes of the messages are written ')
MissingId(identifier) ==
  Err("Api", 400, "missing '" \o identifier \o "' field in object")
Conflict(identifier, id) ==
  Err("Api", 409,
      "entity with '" \o identifier \o "'=" \o Display(id) \o " already exists")

\* a plausible slip: the record is put in front of the list
create_push_front(its, item, identifier) ==
  IF ~id_field(item).some THEN [ret |-> MissingId(identifier), items |-> its]
  ELSE IF find(its, id_field(item).v).some
    THEN [ret |-> Conflict(identifier, id_field(item).v), items |-> its]
  ELSE [ret |-> Ok(Len(its)), items |-> <<item>> \o its]

\* a plausible slip: no conflict check
create_unchecked(its, item, identifier) ==
  IF ~id_field(item).some THEN [ret |-> MissingId(identifier), items |-> its]
  ELSE [ret |-> Ok(Len(its)), items |-> Append(its, item)]

\* Store::create: the result and the record list after the call
create(its, item, identifier) ==
  IF ~id_field(item).some THEN [ret |-> MissingId(identifier), items |-> its]
  ELSE IF find(its, id_field(item).v).some
    THEN [ret |-> Conflict(identifier, id_field(item).v), items |-> its]
  ELSE [ret |-> Ok(Len(its)), items |-> Append(its, item)]

RECURSIVE remove_from(_, _, _)
remove_from(its, id, i) ==
  IF i > Len(its) THEN 0
  ELSE IF id_field(its[i]).some /\ id_field(its[i]).v = id THEN i
  ELSE remove_from(its, id, i + 1)

\* Store::remove (structural comparison *id_val == *id)
remove(its, id) ==
  LET i == remove_from(its, id, 1) IN
  IF i = 0 THEN [ret |-> None, items |-> its]
  ELSE [ret |-> Some(its[i]),
        items |-> SubSeq(its, 1, i - 1) \o SubSeq(its, i + 1, Len(its))]

RECURSIVE json_serialize(_)
\* Store::json_serialize: what save writes for the record list
json_serialize(its) ==
  IF its = <<>> THEN <<>>
  ELSE <<object_to_json(Head(its).obj)>> \o json_serialize(Tail(its))

RECURSIVE json_deserialize(_, _)
\* Store::json_deserialize: the record lists load can build from a file
\* (every record becomes a fresh HashMap instance)
json_deserialize(f, identifier) ==
  IF f = <<>> THEN {<<>>}
  ELSE {<<h>> \o t :
          h \in Instances(object_from_json(Head(f)), identifier),
          t \in json_deserialize(Tail(f), identifier)}

\* a backing file: whether it exists and the JSON list it holds
NoFile == [exists |-> FALSE, recs |-> <<>>]
FileOf(recs) == [exists |-> TRUE, recs |-> recs]

\* a plausible slip: load answers from the record list left in memory
load_cached(its, f, identifier) ==
  IF ~f.exists THEN {[ret |-> Err("IO", 0, "No such file or directory (os error 2)"), items |-> its]}
  ELSE {[ret |-> Ok(Len(its)), items |-> its]}

\* Store::load: File::open fails when the file is missing; otherwise the
\* record list is replaced by what the file holds
load(its, f, identifier) ==
  IF ~f.exists THEN {[ret |-> Err("IO", 0, "No such file or directory (os error 2)"), items |-> its]}
  ELSE {[ret |-> Ok(Len(n)), items |-> n] : n \in json_deserialize(f.recs, identifier)}

\* Store::save: File::create truncates or creates the file, then the
\* serializer writes the whole list
save(its) == FileOf(json_serialize(its))

(***************************************************************************)
(* A Store of either format (Store::json, Store::toml) and its file.  The  *)
(* file is missing, holds no bytes (doc is None), or holds a document:     *)
(* the list of the records written.                                        *)
(***************************************************************************)
Missing == [exists |-> FALSE, doc |-> None]
\* what File::create leaves before anything is written
Truncated == [exists |-> TRUE, doc |-> None]
Document(recs) == [exists |-> TRUE, doc |-> Some(recs)]

\* the values of a record that Value::to_toml refuses
Refused(item) == {k \in DOMAIN item.obj : ~to_toml(item.obj[k]).ok}

\* Store::toml_serialize: convert_items with Value::to_toml, then the
\* document is written
toml_serialize(its) ==
  IF \E i \in 1..Len(its) : Refused(its[i]) # {} THEN NoNullInToml
  ELSE Ok([i \in 1..Len(its) |->
             [k \in DOMAIN its[i].obj |-> to_toml(its[i].obj[k]).v]])

\* Store::toml_deserialize: convert_items with Value::try_from_toml
toml_deserialize(recs, identifier) ==
  IF recs = <<>> THEN {<<>>}
  ELSE {its \in [1..Len(recs) ->
                   UNION {Instances([k \in DOMAIN recs[i] |->
                                       try_from_toml(recs[i][k])], identifier) :
                          i \in 1..Len(recs)}] :
          \A i \in 1..Len(recs) :
            its[i].obj = [k \in DOMAIN recs[i] |-> try_from_toml(recs[i][k])]}

\* Store::save: File::create(&self.path)?, which empties the file, then
\* (self.serializer)(&self.items, &mut f)?
Store_save(format, its, f) ==
  IF format = "json"
  THEN [ret |-> Ok(0), file |-> Document(json_serialize(its))]
  ELSE IF toml_serialize(its).ok
  THEN [ret |-> Ok(0), file |-> Document(toml_serialize(its).v)]
  ELSE [ret |-> toml_serialize(its), file |-> Truncated]

\* Store::load: File::open(&self.path)?, then the deserializer, which
\* fails on a file without a document
Store_load(format, its, f, identifier) ==
  IF ~f.exists
  THEN {[ret |-> Err("IO", 0, "No such file or directory (os error 2)"), items |-> its]}
  ELSE IF ~f.doc.some
  THEN {[ret |-> Err("Parse", 0, "unexpected end of input"), items |-> its]}
  ELSE {[ret |-> Ok(Len(n)), items |-> n] :
          n \in IF format = "json" THEN json_deserialize(f.doc.v, identifier)
                ELSE toml_deserialize(f.doc.v, identifier)}

StoreFormats == {"json", "toml"}
SaveObjects ==
  { [id |-> Unsigned(0, 1)],
    [id |-> Unsigned(0, 2), note |-> Null],
    [id |-> String("3"), note |-> String("x")] }

\* the store: its format, its record list and its file
FormatStore(format, its, f) == [format |-> format, items |-> its, file |-> f]
\* the record of a call: its name, its result, the file before the call
SaveCall(op, ret, before) == [op |-> op, ret |-> ret, before |-> before]

InitSave ==
  /\ \E format \in StoreFormats : buf = FormatStore(format, <<>>, Missing)
  /\ last = SaveCall("new", Ok(0), Missing)
  /\ items = <<>> /\ file = <<>> /\ lock = <<>> /\ poisoned = <<>>
  /\ mwlock = <<>> /\ pc = <<>> /\ req = <<>> /\ res = <<>> /\ mwi = <<>>
  /\ snap = <<>> /\ workload = {} /\ middlewares = <<>> /\ mwpoisoned = <<>>
  /\ sent = <<>>
  /\ router = <<>>

SaveUnchanged ==
  UNCHANGED <<items, file, lock, poisoned, mwlock, pc, req, res, mwi, snap,
              workload, sent, middlewares, mwpoisoned, router>>

format_store_create ==
  \E o \in SaveObjects : \E it \in Instances(o, "id") :
    LET r == create(buf.items, it, "id") IN
    /\ Len(r.items) <= MaxItems
    /\ buf' = FormatStore(buf.format, r.items, buf.file)
    /\ last' = SaveCall("create", r.ret, buf.file)
    /\ SaveUnchanged

format_store_save ==
  LET r == Store_save(buf.format, buf.items, buf.file) IN
  /\ buf' = FormatStore(buf.format, buf.items, r.file)
  /\ last' = SaveCall("save", r.ret, buf.file)
  /\ SaveUnchanged

format_store_load ==
  \E r \in Store_load(buf.format, buf.items, buf.file, "id") :
    /\ buf' = FormatStore(buf.format, r.items, buf.file)
    /\ last' = SaveCall("load", r.ret, buf.file)
    /\ SaveUnchanged

NextSave ==
  \/ format_store_create
  \/ format_store_save
  \/ format_store_load

SpecSave == InitSave /\ [][NextSave]_vars

(***************************************************************************)
(* Configuration: the routes of the realized Config (src/lib/config.rs)    *)
(***************************************************************************)
Routes ==
  << [methods |-> {"POST", "GET", "PUT", "PATCH", "DELETE", "HEAD"},
      endpoint |-> <<"/users">>, path |-> "users.json", identifier |-> "id"],
     [methods |-> {"POST", "GET"},
      endpoint |-> <<"/posts">>, path |-> "posts.json", identifier |-> "id"],
     [methods |-> {"POST", "GET"},
      endpoint |-> <<"/people">>, path |-> "users.json", identifier |-> "id"] >>

Handlers == 1..Len(Routes)
Paths == {Routes[h].path : h \in Handlers}
PathOf(h) == Routes[h].path
IdentifierOf(h) == Routes[h].identifier

(***************************************************************************)
(* The Store driven through its API (one store, handler 1's)               *)
(***************************************************************************)
S == 1
U1 == Unsigned(0, 1)
U2 == Unsigned(0, 2)
UBig == Unsigned(1, 1)
Objects ==
  { [id |-> U1], [id |-> UBig], [id |-> String("1")],
    [name |-> String("Joe")], [id |-> U1, ID |-> U2] }
Ids == {U1, U2, String("1")}
NoItem == [obj |-> <<>>, hit |-> NoKey]
Call(op, item, id, ret) == [op |-> op, item |-> item, id |-> id, ret |-> ret]

InitStore ==
  /\ items = [h \in Handlers |-> <<>>]
  /\ file = [p \in Paths |-> NoFile]
  /\ lock = [h \in Handlers |-> NoOne]
  /\ poisoned = [h \in Handlers |-> FALSE]
  /\ mwlock = <<>>
  /\ pc = <<>>
  /\ req = <<>>
  /\ res = <<>>
  /\ mwi = <<>>
  /\ snap = <<>>
  /\ last = Call("new", NoItem, Null, Ok(0))
  /\ router = <<>>
  /\ workload = {}
  /\ sent = <<>>
  /\ middlewares = <<>>
  /\ mwpoisoned = <<>>
  /\ buf = <<>>

ServerUnchanged ==
  UNCHANGED <<lock, poisoned, mwlock, pc, req, res, mwi, snap, router, workload, sent, middlewares, mwpoisoned, buf>>

store_create ==
  \E o \in Objects : \E it \in Instances(o, IdentifierOf(S)) :
    /\ Len(create(items[S], it, IdentifierOf(S)).items) <= MaxItems
    /\ items' = [items EXCEPT ![S] = create(items[S], it, IdentifierOf(S)).items]
    /\ last' = Call("create", it, Null, create(items[S], it, IdentifierOf(S)).ret)
    /\ UNCHANGED file
    /\ ServerUnchanged

store_find ==
  \E id \in Ids :
    /\ last' = Call("find", NoItem, id, find(items[S], id))
    /\ UNCHANGED <<items, file>>
    /\ ServerUnchanged

store_remove ==
  \E id \in Ids :
    /\ items' = [items EXCEPT ![S] = remove(items[S], id).items]
    /\ last' = Call("remove", NoItem, id, remove(items[S], id).ret)
    /\ UNCHANGED file
    /\ ServerUnchanged

store_load ==
  \E r \in load(items[S], file[PathOf(S)], IdentifierOf(S)) :
    /\ items' = [items EXCEPT ![S] = r.items]
    /\ last' = Call("load", NoItem, Null, r.ret)
    /\ UNCHANGED file
    /\ ServerUnchanged

store_save ==
  /\ file' = [file EXCEPT ![PathOf(S)] = save(items[S])]
  /\ last' = Call("save", NoItem, Null, Ok(0))
  /\ UNCHANGED items
  /\ ServerUnchanged

NextStore ==
  \/ store_create
  \/ store_find
  \/ store_remove
  \/ store_load
  \/ store_save

SpecStore == InitStore /\ [][NextStore]_vars

(***************************************************************************)
(* Request (src/lib/request.rs).  A target is a sequence of tokens, the    *)
(* characters ?, &, = being tokens of their own.                     *)
(***************************************************************************)
RECURSIVE index_from(_, _, _)
index_from(seq, tok, i) ==
  IF i > Len(seq) THEN 0
  ELSE IF seq[i] = tok THEN i
  ELSE index_from(seq, tok, i + 1)

\* str::split_once
split_once(seq, tok) ==
  LET i == index_from(seq, tok, 1) IN
  IF i = 0 THEN None
  ELSE Some(<<SubSeq(seq, 1, i - 1), SubSeq(seq, i + 1, Len(seq))>>)

RECURSIVE split(_, _)
\* str::split
split(seq, tok) ==
  IF ~split_once(seq, tok).some THEN <<seq>>
  ELSE <<split_once(seq, tok).v[1]>> \o split(split_once(seq, tok).v[2], tok)

RECURSIVE Join(_)
\* the text of a token sequence
Join(seq) == IF seq = <<>> THEN "" ELSE Head(seq) \o Join(Tail(seq))

\* Request::query
query(target) ==
  IF split_once(target, "?").some THEN Some(split_once(target, "?").v[2])
  ELSE None

\* Request::path: None when the target holds no ?
path(target) ==
  IF split_once(target, "?").some THEN Some(split_once(target, "?").v[1])
  ELSE None

\* a plausible slip: the segment is split at its last =
query_segment_rsplit(param) ==
  LET eqs == {i \in 1..Len(param) : param[i] = "="} IN
  IF eqs # {}
  THEN LET i == CHOOSE j \in eqs : \A l \in eqs : l <= j
       IN  [key |-> Join(SubSeq(param, 1, i - 1)),
            val |-> Some(Join(SubSeq(param, i + 1, Len(param))))]
  ELSE [key |-> Join(param), val |-> None]

\* one key[=value] segment of the query
query_segment(param) ==
  IF split_once(param, "=").some
  THEN [key |-> Join(split_once(param, "=").v[1]),
        val |-> Some(Join(split_once(param, "=").v[2]))]
  ELSE [key |-> Join(param), val |-> None]

\* Request::query_params
query_params(target) ==
  IF ~query(target).some THEN <<>>
  ELSE LET segs == split(query(target).v, "&") IN
       [i \in 1..Len(segs) |-> query_segment(segs[i])]

RECURSIVE query_param_from(_, _, _)
query_param_from(ps, k, i) ==
  IF i > Len(ps) THEN None
  ELSE IF eq_ignore_ascii_case(ps[i].key, k) THEN Some(ps[i])
  ELSE query_param_from(ps, k, i + 1)

\* Request::query_param
query_param(target, k) == query_param_from(query_params(target), k, 1)

(***************************************************************************)
(* Response (src/lib/response.rs) over Buffer (src/lib/http.rs)            *)
(***************************************************************************)
EmptyBody == [kind |-> "empty", text |-> "", obj |-> <<>>]
TextBody(t) == [kind |-> "text", text |-> t, obj |-> <<>>]
JsonBody(o) == [kind |-> "json", text |-> "", obj |-> o]
\* the decimal byte length of a body (kept symbolic for a JSON document)
body_len(b) == IF b.kind = "json" THEN "len(json)" ELSE ToString(Len(b.text))

\* Status::descr, for the codes the server answers with
StatusText(code) ==
  CASE code = 200 -> Some("OK")
    [] code = 201 -> Some("Created")
    [] code = 400 -> Some("Bad Request")
    [] code = 404 -> Some("Not Found")
    [] code = 409 -> Some("Conflict")
    [] code = 500 -> Some("Internal Server Error")
    [] code = 501 -> Some("Not Implemented")
    [] OTHER -> None

\* Buffer::default (through Response::default)
Response_default ==
  [status |-> 200, reason |-> StatusText(200), headers |-> <<>>, body |-> EmptyBody]

\* Response::with_status
with_status(r, code) == [r EXCEPT !.status = code, !.reason = StatusText(code)]

\* a plausible slip: the reason is replaced only when the code is known
with_status_code_known(r, code) ==
  [r EXCEPT !.status = code,
            !.reason = IF StatusText(code).some THEN StatusText(code) ELSE @]

\* Response::with_status_code
with_status_code(r, code) ==
  [r EXCEPT !.status = code, !.reason = StatusText(code)]

\* Response::with_reason
with_reason(r, reason) == [r EXCEPT !.reason = Some(reason)]

\* Buffer::with_header
with_header(r, k, v) == [r EXCEPT !.headers = Append(@, <<k, v>>)]

RECURSIVE header_index(_, _, _)
header_index(hs, k, i) ==
  IF i > Len(hs) THEN 0
  ELSE IF eq_ignore_ascii_case(hs[i][1], k) THEN i
  ELSE header_index(hs, k, i + 1)

\* a plausible slip: the header to overwrite is found by its exact name
set_header_case_sensitive(r, k, v) ==
  LET m == {i \in 1..Len(r.headers) : r.headers[i][1] = k} IN
  IF m = {} THEN [r EXCEPT !.headers = Append(@, <<k, v>>)]
  ELSE LET i == CHOOSE j \in m : \A l \in m : j <= l
       IN  [r EXCEPT !.headers[i] = <<r.headers[i][1], v>>]

\* Buffer::set_header
set_header(r, k, v) ==
  LET i == header_index(r.headers, k, 1) IN
  IF i = 0 THEN [r EXCEPT !.headers = Append(@, <<k, v>>)]
  ELSE [r EXCEPT !.headers[i] = <<r.headers[i][1], v>>]

\* Buffer::with_body (the body replaced, Content-Length recomputed)
with_body(r, b) ==
  IF b.kind = "empty"
  THEN set_header([r EXCEPT !.body = b], "Content-Length", "0")
  ELSE set_header([r EXCEPT !.body = b], "Content-Length", body_len(b))

\* a plausible slip: the status an Api error carries is not looked at
from_error_internal(e) ==
  LET r == with_status_code(Response_default, 500)
  IN  IF e.msg.some THEN with_body(r, TextBody(e.msg.v)) ELSE r

\* From<Error> for Response
from_error(e) ==
  LET code == IF e.kind = "Api" THEN e.status ELSE 500
      r == with_status_code(Response_default, code)
  IN  IF e.msg.some THEN with_body(r, TextBody(e.msg.v)) ELSE r

(***************************************************************************)
(* A Response driven through its API.                                      *)
(***************************************************************************)
\* status codes given to with_status_code: 299 and 600 are not in the table
Codes == {200, 201, 299, 404, 500, 600}
Reasons == {"Custom", "Gone Fishing"}
ErrorKinds == {"IO", "Sync", "Parse", "Unknown"}
ApiStatuses == {400, 404, 409, 500, 501}
Messages == {None, Some(""), Some("boom")}
Errors ==
  {Error_new(k, 0, m) : k \in ErrorKinds, m \in Messages}
    \cup {Error_new("Api", st, m) : st \in ApiStatuses, m \in Messages}
NoError == Error_new("", 0, None)

\* the record of a call: its name, its arguments, the reason the response
\* had before the call
ResponseCall(op, e, code, reason, before) ==
  [op |-> op, e |-> e, code |-> code, reason |-> reason, before |-> before]

InitResponse ==
  /\ buf = Response_default
  /\ last = ResponseCall("default", NoError, 0, "", None)
  /\ items = <<>> /\ file = <<>> /\ lock = <<>> /\ poisoned = <<>>
  /\ mwlock = <<>> /\ pc = <<>> /\ req = <<>> /\ res = <<>> /\ mwi = <<>>
  /\ snap = <<>> /\ workload = {} /\ middlewares = <<>> /\ mwpoisoned = <<>>
  /\ sent = <<>>
  /\ router = <<>>

ResponseUnchanged ==
  UNCHANGED <<items, file, lock, poisoned, mwlock, pc, req, res, mwi, snap,
              workload, sent, middlewares, mwpoisoned, router>>

response_from_error ==
  \E e \in Errors :
    /\ buf' = from_error(e)
    /\ last' = ResponseCall("from_error", e, 0, "", buf.reason)
    /\ ResponseUnchanged

response_with_status_code ==
  \E code \in Codes :
    /\ buf' = with_status_code(buf, code)
    /\ last' = ResponseCall("with_status_code", NoError, code, "", buf.reason)
    /\ ResponseUnchanged

response_with_reason ==
  \E r \in Reasons :
    /\ buf' = with_reason(buf, r)
    /\ last' = ResponseCall("with_reason", NoError, 0, r, buf.reason)
    /\ ResponseUnchanged

NextResponse ==
  \/ response_from_error
  \/ response_with_status_code
  \/ response_with_reason

SpecResponse == InitResponse /\ [][NextResponse]_vars

(***************************************************************************)
(* Buffer (src/lib/http.rs): start line, header list, body.  A text is a   *)
(* sequence of tokens: the delimiters "\n", " " and ":" are tokens of      *)
(* their own, every other token is a word holding none of them.  A header  *)
(* name is one word; header values, reason phrases and bodies are texts.   *)
(***************************************************************************)
NL == "\n"
SP == " "
COLON == ":"

RECURSIVE byte_len(_)
\* Vec<u8>::len of a text
byte_len(text) ==
  IF text = <<>> THEN 0 ELSE Len(Head(text)) + byte_len(Tail(text))

\* Status::descr().1 as a text, for the codes used here
StatusWords(code) ==
  CASE code = 200 -> Some(<<"OK">>)
    [] code = 201 -> Some(<<"Created">>)
    [] code = 404 -> Some(<<"Not", SP, "Found">>)
    [] code = 500 -> Some(<<"Internal", SP, "Server", SP, "Error">>)
    [] OTHER -> None

Versions == {"HTTP/1.0", "HTTP/1.1", "HTTP/2"}
Methods == {"POST", "GET", "PUT", "PATCH", "DELETE", "HEAD", "OPTIONS"}
StatusCodes == {200, 299, 404}

\* StartLine::Request, StartLine::Response
RequestStart(m, t, v) == [kind |-> "request", method |-> m, target |-> t, version |-> v]
ResponseStart(v, st, r) == [kind |-> "response", version |-> v, status |-> st, reason |-> r]
\* StartLine::response: a missing reason is taken from the status table
StartLine_response(v, st, r) ==
  ResponseStart(v, st, IF r.some THEN r ELSE StatusWords(st))

\* Display for StartLine
StartLine_display(sl) ==
  IF sl.kind = "request" THEN <<sl.method, SP, sl.target, SP, sl.version>>
  ELSE <<sl.version, SP, ToString(sl.status)>>
       \o (IF sl.reason.some THEN <<SP>> \o sl.reason.v ELSE <<>>)

\* str::parse::<u16> on the words used here
parse_u16(w) ==
  IF \E n \in StatusCodes : ToString(n) = w
  THEN Ok(CHOOSE n \in StatusCodes : ToString(n) = w)
  ELSE Err("Parse", 0, "invalid digit found in string")

\* a plausible slip: the method is compared as written
parse_method_exact(w) ==
  IF w \in Methods THEN Ok(w)
  ELSE Err("Parse", 0, "Unknown http method '" \o w \o "'")

\* FromStr for Version, FromStr for Method (both ignore ASCII case)
parse_version(w) ==
  IF \E v \in Versions : eq_ignore_ascii_case(v, w)
  THEN Ok(CHOOSE v \in Versions : eq_ignore_ascii_case(v, w))
  ELSE Err("Parse", 0, "Unknown http method '" \o w \o "'")
parse_method(w) ==
  IF \E m \in Methods : eq_ignore_ascii_case(m, w)
  THEN Ok(CHOOSE m \in Methods : eq_ignore_ascii_case(m, w))
  ELSE Err("Parse", 0, "Unknown http method '" \o w \o "'")

\* str::starts_with("HTTP"), on the words used here
starts_with_HTTP(w) == w \in {"HTTP", "HTTP/1.0", "HTTP/1.1", "HTTP/2", "HTTP/9"}

\* FromStr for StartLine
StartLine_from_str(line) ==
  LET parts == split(line, SP) IN
  IF Len(parts) < 2
  THEN Err("IO", 0, "invalid http start line")
  ELSE IF starts_with_HTTP(Join(parts[1]))
  THEN \* a status line
       IF ~parse_version(Join(parts[1])).ok THEN parse_version(Join(parts[1]))
       ELSE IF ~parse_u16(Join(parts[2])).ok THEN parse_u16(Join(parts[2]))
       ELSE Ok(StartLine_response(parse_version(Join(parts[1])).v,
                                  parse_u16(Join(parts[2])).v,
                                  IF Len(parts) >= 3 THEN Some(parts[3]) ELSE None))
  ELSE \* a request line
       IF ~parse_method(Join(parts[1])).ok THEN parse_method(Join(parts[1]))
       ELSE IF Len(parts) < 3
       THEN Err("Parse", 0, "Invalid http start line, missing version")
       ELSE IF ~parse_version(Join(parts[3])).ok THEN parse_version(Join(parts[3]))
       ELSE Ok(RequestStart(parse_method(Join(parts[1])).v, Join(parts[2]),
                            parse_version(Join(parts[3])).v))

\* Buffer::default
Buffer_default ==
  [start_line |-> StartLine_response("HTTP/1.1", 200, None),
   headers |-> <<>>, body |-> <<>>]

\* Buffer::with_start_line, Buffer::with_headers
with_start_line(b, v) == [b EXCEPT !.start_line = v]
with_headers(b, hs) == [b EXCEPT !.headers = hs]

\* Buffer::header
header(b, k) ==
  LET i == header_index(b.headers, k, 1) IN
  IF i = 0 THEN None ELSE Some(b.headers[i][2])

\* a plausible slip: the new Content-Length is pushed as one more header
Buffer_append_body_push(b, text) ==
  with_header([b EXCEPT !.body = @ \o text],
              "Content-Length", <<ToString(byte_len(b.body \o text))>>)

\* Buffer::append_body
Buffer_append_body(b, text) ==
  set_header([b EXCEPT !.body = @ \o text],
             "Content-Length", <<ToString(byte_len(b.body \o text))>>)

\* Buffer::with_body
Buffer_with_body(b, text) == Buffer_append_body([b EXCEPT !.body = <<>>], text)

RECURSIVE header_lines(_)
\* the header lines Buffer::write_to writes
header_lines(hs) ==
  IF hs = <<>> THEN <<>>
  ELSE <<Head(hs)[1], COLON, SP>> \o Head(hs)[2] \o <<NL>> \o header_lines(Tail(hs))

\* a plausible slip: the blank line is written whatever the body
write_to_blank_line(b) ==
  StartLine_display(b.start_line) \o <<NL>> \o header_lines(b.headers)
    \o <<NL>> \o b.body

\* Buffer::write_to
write_to(b) ==
  StartLine_display(b.start_line) \o <<NL>> \o header_lines(b.headers)
    \o (IF b.body # <<>> THEN <<NL>> \o b.body ELSE <<>>)

\* str::lines: the text split at line feeds, without a last empty line
str_lines(text) ==
  LET ls == split(text, NL) IN
  IF ls[Len(ls)] = <<>> THEN SubSeq(ls, 1, Len(ls) - 1) ELSE ls

RECURSIVE trim_start(_)
\* a plausible slip: str::trim_start in the place of str::trim
trim_start(text) ==
  IF text = <<>> THEN <<>>
  ELSE IF Head(text) = SP THEN trim_start(Tail(text))
  ELSE text

RECURSIVE trim(_)
\* str::trim
trim(text) ==
  IF text = <<>> THEN <<>>
  ELSE IF Head(text) = SP THEN trim(Tail(text))
  ELSE IF text[Len(text)] = SP THEN trim(SubSeq(text, 1, Len(text) - 1))
  ELSE text

RECURSIVE join_lines(_)
\* [&str]::join("\n")
join_lines(ls) ==
  IF ls = <<>> THEN <<>>
  ELSE IF Len(ls) = 1 THEN ls[1]
  ELSE ls[1] \o <<NL>> \o join_lines(Tail(ls))

RECURSIVE sort_lines(_, _, _, _)
\* FromStr for Buffer, the loop over the lines after the start line: an
\* empty line switches to the body and is dropped
sort_lines(ls, body_mode, hs, body) ==
  IF ls = <<>> THEN [headers |-> hs, body |-> body]
  ELSE IF Head(ls) = <<>> THEN sort_lines(Tail(ls), TRUE, hs, body)
  ELSE IF body_mode THEN sort_lines(Tail(ls), body_mode, hs, Append(body, Head(ls)))
  ELSE sort_lines(Tail(ls), body_mode, Append(hs, Head(ls)), body)

\* FromStr for Buffer
Buffer_from_str(text) ==
  LET lines == str_lines(text) IN
  IF lines = <<>> THEN Err("Parse", 0, "invalid http buffer, missing start line")
  ELSE IF ~StartLine_from_str(lines[1]).ok THEN StartLine_from_str(lines[1])
  ELSE
    LET rest == sort_lines(Tail(lines), FALSE, <<>>, <<>>)
        kvs == [i \in 1..Len(rest.headers) |-> split_once(rest.headers[i], COLON)]
    IN  IF \E i \in 1..Len(kvs) : ~kvs[i].some
        THEN Err("Parse", 0, "invalid header")
        ELSE Ok(Buffer_with_body(
                  with_headers(
                    with_start_line(Buffer_default, StartLine_from_str(lines[1]).v),
                    [i \in 1..Len(kvs) |-> <<Join(kvs[i].v[1]), trim(kvs[i].v[2])>>]),
                  join_lines(rest.body)))

(***************************************************************************)
(* A Buffer driven through its API: built with a start line and a header   *)
(* list, then mutated, written and parsed back.                            *)
(***************************************************************************)
StartLines ==
  { ResponseStart("HTTP/1.0", 200, Some(<<"OK">>)),
    StartLine_response("HTTP/1.1", 404, None),
    ResponseStart("HTTP/1.1", 299, None),
    RequestStart("GET", "/", "HTTP/1.0") }
HeaderLists ==
  { <<>>,
    << <<"Content-Type", <<"application/json">>>> >>,
    << <<"content-length", <<"9">>>> >>,
    << <<"X-A", <<"1">>>> >>,
    << <<"X-A", <<"1">>>>, <<"x-a", <<"2">>>> >> }
HeaderNames == {"X-A", "x-a"}
HeaderValues == {<<"1">>, <<"2">>}
Bodies == {<<>>, <<"test">>, <<"a", NL, NL, "b">>}

\* the headers of b whose name matches k, ignoring case
Matching(b, k) ==
  {i \in 1..Len(b.headers) : eq_ignore_ascii_case(b.headers[i][1], k)}

\* the record of a Buffer API call: n counts the calls, had is the number
\* of headers that matched k before the call, prev the call before it
BufferCall(op, n, k, v, had, prev, ret) ==
  [op |-> op, n |-> n, k |-> k, v |-> v, had |-> had, prev |-> prev, ret |-> ret]
NoCall == [op |-> "", k |-> "", had |-> 0]
Prev(call) == [op |-> call.op, k |-> call.k, had |-> call.had]

InitBuffer ==
  /\ \E sl \in StartLines : \E hs \in HeaderLists :
       buf = with_headers(with_start_line(Buffer_default, sl), hs)
  /\ last = BufferCall("with_headers", 0, "", <<>>, 0, NoCall, None)
  /\ items = <<>> /\ file = <<>> /\ lock = <<>> /\ poisoned = <<>>
  /\ mwlock = <<>> /\ pc = <<>> /\ req = <<>> /\ res = <<>> /\ mwi = <<>>
  /\ snap = <<>> /\ workload = {} /\ middlewares = <<>> /\ mwpoisoned = <<>>
  /\ sent = <<>>
  /\ router = <<>>

BufferUnchanged ==
  UNCHANGED <<items, file, lock, poisoned, mwlock, pc, req, res, mwi, snap,
              workload, sent, middlewares, mwpoisoned, router>>

buffer_set_header ==
  \E k \in HeaderNames : \E v \in HeaderValues :
    /\ last.n < MaxCalls
    /\ buf' = set_header(buf, k, v)
    /\ last' = BufferCall("set_header", last.n + 1, k, v,
                          Cardinality(Matching(buf, k)), Prev(last), None)
    /\ BufferUnchanged

buffer_with_body ==
  \E t \in Bodies :
    /\ last.n < MaxCalls
    /\ buf' = Buffer_with_body(buf, t)
    /\ last' = BufferCall("with_body", last.n + 1, "Content-Length", t,
                          Cardinality(Matching(buf, "Content-Length")), Prev(last), None)
    /\ BufferUnchanged

buffer_append_body ==
  \E t \in Bodies :
    /\ last.n < MaxCalls
    /\ buf' = Buffer_append_body(buf, t)
    /\ last' = BufferCall("append_body", last.n + 1, "Content-Length", t,
                          Cardinality(Matching(buf, "Content-Length")), Prev(last), None)
    /\ BufferUnchanged

buffer_write_to ==
  /\ last.n < MaxCalls
  /\ last' = BufferCall("write_to", last.n + 1, "", <<>>, 0, Prev(last),
                        Some(write_to(buf)))
  /\ UNCHANGED buf
  /\ BufferUnchanged

\* the buffer is written and the text parsed back
buffer_from_str ==
  /\ last.n < MaxCalls
  /\ last' = BufferCall("from_str", last.n + 1, "", <<>>, 0, Prev(last),
                        Some(Buffer_from_str(write_to(buf))))
  /\ UNCHANGED buf
  /\ BufferUnchanged

NextBuffer ==
  \/ buffer_set_header
  \/ buffer_with_body
  \/ buffer_append_body
  \/ buffer_write_to
  \/ buffer_from_str

SpecBuffer == InitBuffer /\ [][NextBuffer]_vars

(***************************************************************************)
(* The parsers fed with texts: start lines of up to MaxParts words, and    *)
(* messages of a request line followed by up to MaxLines lines.            *)
(***************************************************************************)
\* the words of a start line; the empty word stands between two spaces
StartWords ==
  {<<"GET">>, <<"get">>, <<"FETCH">>, <<"/">>, <<"HTTP/1.1">>, <<"http/1.1">>,
   <<"HTTP/9">>, <<"200">>, <<>>}
RECURSIVE join_words(_)
\* [&str]::join(" ")
join_words(ws) ==
  IF ws = <<>> THEN <<>>
  ELSE IF Len(ws) = 1 THEN ws[1]
  ELSE ws[1] \o <<SP>> \o join_words(Tail(ws))
StartTexts ==
  {join_words(ws) : ws \in UNION {[1..n -> StartWords] : n \in 0..MaxParts}}

\* the lines after the start line: a blank line, a header whose value has
\* spaces on both sides, a header with two colons, a line without colon
MessageLines ==
  {<<>>, <<"X-A", COLON, SP, "1", SP>>, <<"a", COLON, "b", COLON, "c">>,
   <<"text">>}
RequestLine == <<"GET", SP, "/", SP, "HTTP/1.1">>
MessageTexts ==
  {join_lines(<<RequestLine>> \o ls) :
     ls \in UNION {[1..n -> MessageLines] : n \in 0..MaxLines}}

\* the record of a parse: the parser, and its result
ParseCall(op, ret) == [op |-> op, ret |-> ret]

InitParse ==
  /\ buf \in StartTexts \cup MessageTexts
  /\ last = ParseCall("new", None)
  /\ items = <<>> /\ file = <<>> /\ lock = <<>> /\ poisoned = <<>>
  /\ mwlock = <<>> /\ pc = <<>> /\ req = <<>> /\ res = <<>> /\ mwi = <<>>
  /\ snap = <<>> /\ workload = {} /\ middlewares = <<>> /\ mwpoisoned = <<>>
  /\ sent = <<>>
  /\ router = <<>>

ParseUnchanged ==
  UNCHANGED <<items, file, lock, poisoned, mwlock, pc, req, res, mwi, snap,
              workload, sent, middlewares, mwpoisoned, router, buf>>

\* a line is parsed as a start line
parse_start_line ==
  /\ index_from(buf, NL, 1) = 0
  /\ last' = ParseCall("StartLine", Some(StartLine_from_str(buf)))
  /\ ParseUnchanged

\* a text is parsed as a message
parse_buffer ==
  /\ last' = ParseCall("Buffer", Some(Buffer_from_str(buf)))
  /\ ParseUnchanged

NextParse ==
  \/ parse_start_line
  \/ parse_buffer

SpecParse == InitParse /\ [][NextParse]_vars

(***************************************************************************)
(* Router (src/lib/router.rs)                                              *)
(***************************************************************************)
\* Router::set
set(rt, methods, endpoint, h) ==
  [k \in DOMAIN rt \cup {<<endpoint, m>> : m \in methods} |->
     IF k[1] = endpoint /\ k[2] \in methods THEN h ELSE rt[k]]

RECURSIVE with_routes_from(_, _, _)
with_routes_from(rt, routes, h) ==
  IF h > Len(routes) THEN rt
  ELSE with_routes_from(set(rt, routes[h].methods, routes[h].endpoint, h),
                        routes, h + 1)

\* Router::with_routes: one StoreRouteHandler (and Store, and mutex) per route
with_routes(routes) == with_routes_from(<<>>, routes, 1)

\* Router::handler
handler(rt, method, endpoint) ==
  IF <<endpoint, method>> \in DOMAIN rt THEN Some(rt[<<endpoint, method>>])
  ELSE None

\* the endpoint Router::dispatch looks up
dispatch_endpoint(target) ==
  IF path(target).some THEN path(target).v ELSE <<"/">>

\* Router::dispatch: the handler invoked (none on a miss) and the response
\* the router itself produces on a miss
router_dispatch(rt, method, target) ==
  LET h == handler(rt, method, dispatch_endpoint(target)) IN
  IF h.some THEN [invoked |-> <<h.v>>, res |-> None]
  ELSE [invoked |-> <<>>, res |-> Some(with_status(Response_default, 404))]

(***************************************************************************)
(* The Router driven through its API: set calls, then requests dispatched. *)
(* Each set call registers a new handler, numbered by the call.            *)
(***************************************************************************)
RouterEndpoints == {<<"/">>, <<"/users">>, <<"/Users">>}
RouterMethods == {"GET", "POST"}
RouterTargets ==
  { <<"/">>, <<"/users">>, <<"/users", "?">>, <<"/Users", "?">>,
    <<"/nothing">>, <<"/nothing", "?", "id", "=", "1">> }

\* the record of a Router API call: calls lists the set calls made so far
RouterCall(op, calls, method, target, ret) ==
  [op |-> op, calls |-> calls, method |-> method, target |-> target, ret |-> ret]

InitRouter ==
  /\ router = <<>>
  /\ last = RouterCall("default", <<>>, "", <<>>, None)
  /\ items = <<>> /\ file = <<>> /\ lock = <<>> /\ poisoned = <<>>
  /\ mwlock = <<>> /\ pc = <<>> /\ req = <<>> /\ res = <<>> /\ mwi = <<>>
  /\ snap = <<>> /\ workload = {} /\ middlewares = <<>> /\ mwpoisoned = <<>>
  /\ sent = <<>>
  /\ buf = <<>>

RouterUnchanged ==
  UNCHANGED <<items, file, lock, poisoned, mwlock, pc, req, res, mwi, snap,
              workload, sent, middlewares, mwpoisoned, buf>>

router_set ==
  \E ms \in (SUBSET RouterMethods) \ {{}} : \E e \in RouterEndpoints :
    /\ Len(last.calls) < MaxSets
    /\ router' = set(router, ms, e, Len(last.calls) + 1)
    /\ last' = RouterCall("set",
                 Append(last.calls, [methods |-> ms, endpoint |-> e,
                                     h |-> Len(last.calls) + 1]),
                 "", <<>>, None)
    /\ RouterUnchanged

router_dispatch_request ==
  \E m \in RouterMethods : \E t \in RouterTargets :
    /\ last' = RouterCall("dispatch", last.calls, m, t,
                          Some(router_dispatch(router, m, t)))
    /\ UNCHANGED router
    /\ RouterUnchanged

NextRouter == router_set \/ router_dispatch_request

SpecRouter == InitRouter /\ [][NextRouter]_vars

(***************************************************************************)
(* Server (src/lib/server.rs): one thread per accepted connection          *)
(***************************************************************************)
\* the middleware instances of the running server
MwIds == DOMAIN middlewares

Json42 == [id |-> JNum(42), name |-> JStr("Joe")]
Json42s == [id |-> JStr("42")]
JsonNoId == [name |-> JStr("Ann")]
Json7 == [id |-> JNum(7), name |-> JStr("Bob")]

Request(method, target, kind, obj) ==
  [method |-> method, target |-> target, body |-> [kind |-> kind, obj |-> obj]]

\* the requests clients send, by kind of client: a run is served to the
\* clients of one kind
CrudClients ==
  { Request("POST", <<"/users">>, "json", Json42),
    Request("POST", <<"/users", "?">>, "json", Json42),
    Request("POST", <<"/users", "?">>, "json", Json42s),
    Request("POST", <<"/users", "?">>, "json", JsonNoId),
    Request("GET", <<"/users", "?", "ID", "=", "42">>, "none", <<>>) }
FaultyClients ==
  { Request("POST", <<"/users", "?">>, "eof", <<>>),
    Request("POST", <<"/users", "?">>, "syntax", <<>>),
    Request("POST", <<"/users", "?">>, "json", Json42),
    Request("GET", <<"/users", "?", "ID", "=", "42">>, "none", <<>>),
    Request("GET", <<"/users", "?", "id">>, "none", <<>>),
    Request("GET", <<"/users", "?", "name", "=", "Joe">>, "none", <<>>) }
OtherClients ==
  { Request("PUT", <<"/users", "?", "id", "=", "42">>, "json", Json42),
    Request("PATCH", <<"/users", "?", "id", "=", "42">>, "json", Json42),
    Request("DELETE", <<"/users", "?", "id", "=", "42">>, "none", <<>>),
    Request("HEAD", <<"/users", "?">>, "none", <<>>),
    Request("GET", <<"/nothing", "?">>, "none", <<>>) }
\* clients of a server with two collections
TwoStoreClients ==
  { Request("POST", <<"/users", "?">>, "json", Json42),
    Request("POST", <<"/posts", "?">>, "json", Json42) }
\* clients of two routes that name the same backing file
SharedFileClients ==
  { Request("POST", <<"/users", "?">>, "json", Json42),
    Request("POST", <<"/people", "?">>, "json", Json7) }

\* clients that may close their side of the connection early
ImpatientClients ==
  { Request("GET", <<"/users", "?", "id", "=", "7">>, "none", <<>>),
    Request("POST", <<"/users", "?">>, "json", Json7) }

\* clients of a server run with a middleware of the embedding program
ChainClients ==
  { Request("GET", <<"/users", "?", "ID", "=", "42">>, "none", <<>>),
    Request("GET", <<"/nothing", "?">>, "none", <<>>) }
\* the servers checked: the middleware chain (Server::with_middleware and
\* the configured names) and the clients served.  "Cors" is the
\* repository's middleware; "Custom" is a Middleware implementation of the
\* embedding program, of which only the trait is known.
Deployments ==
  {[mws |-> <<"Cors">>, clients |-> w] :
      w \in {CrudClients, FaultyClients, OtherClients, TwoStoreClients,
             SharedFileClients, ImpatientClients}}
  \cup {[mws |-> <<"Custom", "Cors">>, clients |-> ChainClients]}

NoRequest == Request("", <<>>, "none", <<>>)

(***************************************************************************)
(* Request::parse_body.  A body is of kind json, toml or yaml when it is   *)
(* a document of that format, syntax when it is a document of no format    *)
(* with the error inside a line, eof when it is empty or cut short, so     *)
(* that the JSON decoder reports the end of input, at column 0 of the      *)
(* line after the line feed parse_body appends.                            *)
(***************************************************************************)
Formats == {"json", "toml", "yaml"}
\* serde_json / toml / serde_yml ::from_str accept the body (a JSON
\* document is a YAML document too)
Decodes(body, format) ==
  \/ body.kind = format
  \/ body.kind = "json" /\ format = "yaml"

\* the thread panicked: subtraction overflow in e.column() - 1, or the
\* allocation of usize::MAX spaces in a build without overflow checks
Panic == Error_new("panic", 0, None)

\* a request with a header list
WithHeaders(r, hs) ==
  [method |-> r.method, target |-> r.target, body |-> r.body, headers |-> hs]

\* Request::parse_body, every payload format enabled
parse_body(r) ==
  LET i == header_index(r.headers, "Content-Type", 1)
      content_type == r.headers[i][2]
  IN  IF i = 0
      THEN Err("Api", 400, "Missing 'Content-Type' header")
      ELSE IF eq_ignore_ascii_case(content_type, "application/json")
      THEN IF Decodes(r.body, "json") THEN Ok(r.body.obj)
           ELSE IF r.body.kind = "eof" THEN Panic
           ELSE Err("Parse", 0, "failed to deserialize request body")
      ELSE IF eq_ignore_ascii_case(content_type, "application/toml")
      THEN IF Decodes(r.body, "toml") THEN Ok(r.body.obj)
           ELSE Err("Parse", 0, "failed to deserialize request body")
      ELSE IF eq_ignore_ascii_case(content_type, "application/yaml")
      THEN IF Decodes(r.body, "yaml") THEN Ok(r.body.obj)
           ELSE Err("Parse", 0, "failed to deserialize request body")
      ELSE Err("Api", 500, "Cannot deserialize body of type '"
                             \o content_type \o "', missing feature")

(***************************************************************************)
(* The accessors of a Request called on requests of every target.          *)
(***************************************************************************)
ContentTypes ==
  {"application/json", "Application/JSON", "application/toml",
   "application/yaml", "text/plain"}
HeaderSets ==
  {<<>>, << <<"Accept", "*/*">> >>}
    \cup {<< <<k, v>> >> : k \in {"Content-Type", "content-Type"}, v \in ContentTypes}
BodyKinds == {"json", "toml", "yaml", "syntax", "eof"}
PostTarget == <<"/users", "?">>
QueryTokens == {"?", "&", "=", "id", "ID", "1"}
TargetPaths == {<<"/">>, <<"/users">>}
Queries == UNION {[1..n -> QueryTokens] : n \in 0..MaxQuery}
\* a path alone, or a path, a ? and a query
Targets ==
  TargetPaths \cup {p \o <<"?">> \o q : p \in TargetPaths, q \in Queries}
ParamNames == {"id", "ID", "1"}

\* the record of a call on the request: its name, its argument, its result
RequestCall(op, k, ret) == [op |-> op, k |-> k, ret |-> ret]

InitRequest ==
  /\ \/ \E t \in Targets :
          buf = WithHeaders(Request("GET", t, "none", <<>>), <<>>)
     \/ \E hs \in HeaderSets : \E kind \in BodyKinds :
          buf = WithHeaders(
                  Request("POST", PostTarget, kind,
                          IF kind \in Formats THEN Json42 ELSE <<>>), hs)
  /\ last = RequestCall("new", "", None)
  /\ items = <<>> /\ file = <<>> /\ lock = <<>> /\ poisoned = <<>>
  /\ mwlock = <<>> /\ pc = <<>> /\ req = <<>> /\ res = <<>> /\ mwi = <<>>
  /\ snap = <<>> /\ workload = {} /\ middlewares = <<>> /\ mwpoisoned = <<>>
  /\ sent = <<>>
  /\ router = <<>>

RequestUnchanged ==
  UNCHANGED <<items, file, lock, poisoned, mwlock, pc, req, res, mwi, snap,
              workload, sent, middlewares, mwpoisoned, router, buf>>

request_path ==
  /\ last' = RequestCall("path", "", path(buf.target))
  /\ RequestUnchanged

request_query ==
  /\ last' = RequestCall("query", "", query(buf.target))
  /\ RequestUnchanged

request_query_params ==
  /\ last' = RequestCall("query_params", "", query_params(buf.target))
  /\ RequestUnchanged

request_query_param ==
  \E k \in ParamNames :
    /\ last' = RequestCall("query_param", k, query_param(buf.target, k))
    /\ RequestUnchanged

request_parse_body ==
  /\ last' = RequestCall("parse_body", "", Some(parse_body(buf)))
  /\ RequestUnchanged

NextRequest ==
  \/ request_parse_body
  \/ request_path
  \/ request_query
  \/ request_query_params
  \/ request_query_param

SpecRequest == InitRequest /\ [][NextRequest]_vars

(***************************************************************************)
(* Request::from_reader on a stream.  A stream is the list of the results  *)
(* its reads will give: a number of bytes (0 at the end of the stream) or  *)
(* an error; when the list is used up the next read waits for the peer.    *)
(* The bytes of a block are kept as the block's place in the stream and    *)
(* its length.                                                             *)
(***************************************************************************)
BUF_SIZE == 255
ReadError == -1
ReadResults == {0, 1, BUF_SIZE - 1, BUF_SIZE, ReadError}
Streams == UNION {[1..n -> ReadResults] : n \in 0..MaxReads}

\* the state of a from_reader call: the stream, the reads made, the bytes
\* gathered in buf, and where the call is
Reader(stream, pos, bytes, at) ==
  [stream |-> stream, pos |-> pos, bytes |-> bytes, at |-> at]

\* &block[0..nread] of the read at place i
Block(i, nread) == [place |-> i, len |-> nread]

\* a plausible slip: the loop ends at the end of the stream only
short_read_eof(nread) == nread = 0

\* nread < Self::BUF_SIZE
short_read(nread) == nread < BUF_SIZE

InitReader ==
  /\ \E st \in Streams : buf = Reader(st, 0, <<>>, "loop")
  /\ last = None
  /\ items = <<>> /\ file = <<>> /\ lock = <<>> /\ poisoned = <<>>
  /\ mwlock = <<>> /\ pc = <<>> /\ req = <<>> /\ res = <<>> /\ mwi = <<>>
  /\ snap = <<>> /\ workload = {} /\ middlewares = <<>> /\ mwpoisoned = <<>>
  /\ sent = <<>>
  /\ router = <<>>

ReaderUnchanged ==
  UNCHANGED <<items, file, lock, poisoned, mwlock, pc, req, res, mwi, snap,
              workload, sent, middlewares, mwpoisoned, router>>

\* one turn of the loop: r.read(&mut block)?, extend_from_slice, the test
from_reader_read ==
  /\ buf.at = "loop"
  /\ buf.pos < Len(buf.stream)
  /\ LET i == buf.pos + 1
         nread == buf.stream[i]
     IN  IF nread = ReadError
         THEN /\ buf' = Reader(buf.stream, i, buf.bytes, "returned")
              /\ last' = Some(Err("Io", 0, "read failed"))
         ELSE /\ buf' = Reader(buf.stream, i,
                               Append(buf.bytes, Block(i, nread)),
                               IF short_read(nread) THEN "parse" ELSE "loop")
              /\ UNCHANGED last
  /\ ReaderUnchanged

\* after the loop: the bytes gathered are decoded and parsed
from_reader_parse ==
  /\ buf.at = "parse"
  /\ buf' = Reader(buf.stream, buf.pos, buf.bytes, "returned")
  /\ last' = Some(Ok(buf.bytes))
  /\ ReaderUnchanged

NextReader == from_reader_read \/ from_reader_parse

SpecReader == InitReader /\ [][NextReader]_vars

\* the backing files the server can be started on
InitialFiles == {FileOf(<<>>), FileOf(<<Json7>>)}
\* the first collection starts empty or with one record, the others empty
InitialFileSets ==
  {f \in [Paths -> InitialFiles] :
     \A p \in Paths : p # PathOf(1) => f[p] = FileOf(<<>>)}

Init ==
  /\ items = [h \in Handlers |-> <<>>]
  /\ file \in InitialFileSets
  /\ lock = [h \in Handlers |-> NoOne]
  /\ poisoned = [h \in Handlers |-> FALSE]
  /\ \E d \in Deployments : middlewares = d.mws /\ workload = d.clients
  /\ sent = [c \in Conns |-> 0]
  /\ mwlock = [m \in MwIds |-> NoOne]
  /\ mwpoisoned = [m \in MwIds |-> FALSE]
  /\ pc = [c \in Conns |-> "idle"]
  /\ req = [c \in Conns |-> NoRequest]
  /\ res = [c \in Conns |-> Response_default]
  /\ mwi = [c \in Conns |-> 1]
  /\ snap = [c \in Conns |-> <<>>]
  /\ last = Call("new", NoItem, Null, Ok(0))
  /\ router = with_routes(Routes)
  /\ buf = <<>>

\* the handler Router::dispatch finds for the connection's request
HandlerOf(c) ==
  handler(router, req[c].method, dispatch_endpoint(req[c].target))

\* the thread ends (normally or by a panic): its request and response are
\* dropped and the stream is closed
ThreadEnds(c, how) ==
  /\ pc' = [pc EXCEPT ![c] = how]
  /\ req' = [req EXCEPT ![c] = NoRequest]
  /\ res' = [res EXCEPT ![c] = Response_default]
  /\ mwi' = [mwi EXCEPT ![c] = 1]
  /\ snap' = [snap EXCEPT ![c] = <<>>]

\* a plausible slip: the router is moved out of the server (mem::take)
\* into the first thread instead of cloned, an empty Router being left
accept_taking_router(c) ==
  /\ pc[c] = "idle"
  /\ \A d \in Conns : d < c => pc[d] # "idle"
  /\ \E r \in workload : req' = [req EXCEPT ![c] = r]
  /\ res' = [res EXCEPT ![c] = Response_default]
  /\ mwi' = [mwi EXCEPT ![c] = 1]
  /\ pc' = [pc EXCEPT ![c] = IF Len(middlewares) = 0 THEN "dispatch" ELSE "mw_lock"]
  /\ router' = <<>>
  /\ UNCHANGED <<items, file, lock, poisoned, mwlock, snap, last, workload, sent, middlewares, mwpoisoned, buf>>

\* listener.incoming() yields a connection, its thread is spawned and
\* Request::from_reader reads its one request
accept(c) ==
  /\ pc[c] = "idle"
  /\ \A d \in Conns : d < c => pc[d] # "idle"
  /\ \E r \in workload : req' = [req EXCEPT ![c] = r]
  /\ res' = [res EXCEPT ![c] = Response_default]
  /\ mwi' = [mwi EXCEPT ![c] = 1]
  /\ pc' = [pc EXCEPT ![c] = IF Len(middlewares) = 0 THEN "dispatch" ELSE "mw_lock"]
  /\ UNCHANGED <<items, file, lock, poisoned, mwlock, snap, last, router, workload, sent, middlewares, mwpoisoned, buf>>

\* a plausible slip: the middleware is executed without its lock
CanTryLock_unguarded(m) == TRUE

\* middleware.try_lock() returns Ok
CanTryLock(m) == mwlock[m] = NoOne /\ ~mwpoisoned[m]

\* Server::execute_middleware, the try_lock loop: acquire, or sleep and
\* retry; try_lock fails while the mutex is held and whenever it is poisoned
mw_try_lock(c) ==
  /\ pc[c] = "mw_lock"
  /\ IF CanTryLock(mwi[c])
     THEN /\ mwlock' = [mwlock EXCEPT ![mwi[c]] = c]
          /\ pc' = [pc EXCEPT ![c] = "mw_exec"]
     ELSE UNCHANGED <<mwlock, pc>>
  /\ UNCHANGED <<items, file, lock, poisoned, req, res, mwi, snap, last, router, workload, sent, middlewares, mwpoisoned, buf>>

\* CorsMiddleware::execute
cors_execute(r) == set_header(r, "Access-Control-Allow-Origin", "*")

\* Middleware::execute of an implementation other than Cors: it returns a
\* response, returns an error, or panics
custom_execute(r) ==
  {[how |-> "ok", res |-> set_header(r, "X-Custom", "1")],
   [how |-> "err", res |-> from_error(Err("Unknown", 0, "custom middleware failed"))],
   [how |-> "panic", res |-> r]}

\* the outcomes of executing middleware m on response r
execute(m, r) ==
  IF middlewares[m] = "Cors" THEN {[how |-> "ok", res |-> cors_execute(r)]}
  ELSE custom_execute(r)

\* the connection goes on after middleware m returned Ok
AfterMiddleware(m) ==
  IF m + 1 > Len(middlewares) THEN "dispatch" ELSE "mw_lock"

\* Server::execute_middleware, m.unwrap().execute(request, response)?, the
\* guard being dropped on return; a panic inside execute poisons the mutex
mw_execute(c) ==
  /\ pc[c] = "mw_exec"
  /\ mwlock[mwi[c]] = c
  /\ mwlock' = [mwlock EXCEPT ![mwi[c]] = NoOne]
  /\ \E o \in execute(mwi[c], res[c]) :
       CASE o.how = "ok" ->
              /\ res' = [res EXCEPT ![c] = o.res]
              /\ mwi' = [mwi EXCEPT ![c] = mwi[c] + 1]
              /\ pc' = [pc EXCEPT ![c] = AfterMiddleware(mwi[c])]
              /\ UNCHANGED <<req, snap, mwpoisoned>>
         [] o.how = "err" ->
              /\ res' = [res EXCEPT ![c] = o.res]
              /\ pc' = [pc EXCEPT ![c] = "write_err"]
              /\ UNCHANGED <<req, mwi, snap, mwpoisoned>>
         [] o.how = "panic" ->
              /\ mwpoisoned' = [mwpoisoned EXCEPT ![mwi[c]] = TRUE]
              /\ ThreadEnds(c, "crashed")
  /\ UNCHANGED <<items, file, lock, poisoned, last, router, workload, sent, middlewares, buf>>

\* Router::dispatch and StoreRouteHandler::handle up to the store lock
dispatch(c) ==
  /\ pc[c] = "dispatch"
  /\ IF ~HandlerOf(c).some
     THEN \* no handler: 404
          /\ res' = [res EXCEPT ![c] = with_status(Response_default, 404)]
          /\ pc' = [pc EXCEPT ![c] = "write"]
          /\ UNCHANGED <<req, mwi, snap>>
     ELSE IF req[c].method \in {"GET", "POST"}
     THEN /\ pc' = [pc EXCEPT ![c] = "lock"]
          /\ UNCHANGED <<res, req, mwi, snap>>
     ELSE IF req[c].method \notin {"PUT", "PATCH", "DELETE"}
     THEN \* Err(Unknown, "unsupported method")
          /\ res' = [res EXCEPT ![c] =
                from_error(Err("Unknown", 0, "unsupported method: " \o req[c].method))]
          /\ pc' = [pc EXCEPT ![c] = "write_err"]
          /\ UNCHANGED <<req, mwi, snap>>
     ELSE \* PUT, PATCH, DELETE: todo!(), the thread panics
          ThreadEnds(c, "crashed")
  /\ UNCHANGED <<items, file, lock, poisoned, mwlock, last, router, workload, sent, middlewares, mwpoisoned, buf>>

\* the store handler serving the connection, its store's identifier
H(c) == HandlerOf(c).v
Ident(c) == IdentifierOf(H(c))

\* a plausible slip: the store is used without taking its mutex
CanLock_unguarded(h) == TRUE

\* a plausible slip: one mutex shared by all stores
CanLock_global(h) == \A g \in Handlers : lock[g] = NoOne

\* Mutex::lock returns once no other thread holds the mutex
CanLock(h) == lock[h] = NoOne

Respond(c, r, to) ==
  /\ res' = [res EXCEPT ![c] = r]
  /\ pc' = [pc EXCEPT ![c] = to]

\* the 400 answers of load_entity
NoValue(identifier) ==
  with_body(with_status(Response_default, 400),
            TextBody("Identifier '" \o identifier
                     \o "' was found in query params but has no value"))
NoParam(identifier) ==
  with_body(with_status(Response_default, 400),
            TextBody("Identifier '" \o identifier \o "' not found in query params"))

\* load_entity / create_entity: self.store.lock()?, and for a GET the check
\* of the identifier query parameter made before the store is loaded
entity_lock(c) ==
  /\ pc[c] = "lock"
  /\ CanLock(H(c))
  /\ IF poisoned[H(c)]
     THEN \* PoisonError -> Error(Sync); the guard inside it is dropped
          /\ Respond(c, from_error(Err("Sync", 0,
                 "poisoned lock: another task failed inside")), "write_err")
          /\ UNCHANGED lock
     ELSE IF req[c].method = "GET" /\ ~query_param(req[c].target, Ident(c)).some
     THEN /\ Respond(c, NoParam(Ident(c)), "write")
          /\ UNCHANGED lock
     ELSE IF req[c].method = "GET" /\ ~query_param(req[c].target, Ident(c)).v.val.some
     THEN /\ Respond(c, NoValue(Ident(c)), "write")
          /\ UNCHANGED lock
     ELSE /\ lock' = [lock EXCEPT ![H(c)] = c]
          /\ pc' = [pc EXCEPT ![c] = "load"]
          /\ UNCHANGED res
  /\ UNCHANGED <<items, file, poisoned, mwlock, req, mwi, snap, last, router, workload, sent, middlewares, mwpoisoned, buf>>

\* load_entity / create_entity: store.load()?
entity_load(c) ==
  /\ pc[c] = "load"
  /\ \E r \in load(items[H(c)], file[PathOf(H(c))], Ident(c)) :
       IF r.ret.ok
       THEN /\ items' = [items EXCEPT ![H(c)] = r.items]
            /\ snap' = [snap EXCEPT ![c] = file[PathOf(H(c))].recs]
            /\ pc' = [pc EXCEPT ![c] = "op"]
            /\ UNCHANGED <<res, lock>>
       ELSE /\ Respond(c, from_error(r.ret), "write_err")
            /\ lock' = [lock EXCEPT ![H(c)] = NoOne]
            /\ UNCHANGED <<items, snap>>
  /\ UNCHANGED <<file, poisoned, mwlock, req, mwi, last, router, workload, sent, middlewares, mwpoisoned, buf>>

\* the answers of load_entity after the lookup
Found(item) ==
  with_body(with_header(with_status(Response_default, 200),
                        "Content-Type", "application/json"),
            JsonBody(object_to_json(item.obj)))
NotFound(p) ==
  with_body(with_status(Response_default, 404),
            TextBody("Entity with '" \o p.key \o "' = \"" \o p.val.v
                     \o "\" was not found"))

\* load_entity: store.find(..) and the answer; the guard is dropped on return
load_entity_find(c) ==
  /\ pc[c] = "op"
  /\ req[c].method = "GET"
  /\ LET p == query_param(req[c].target, Ident(c)).v
         f == find(items[H(c)], String(p.val.v))
     IN  Respond(c, IF f.some THEN Found(f.v) ELSE NotFound(p), "write")
  /\ lock' = [lock EXCEPT ![H(c)] = NoOne]
  /\ UNCHANGED <<items, file, poisoned, mwlock, req, mwi, snap, last, router, workload, sent, middlewares, mwpoisoned, buf>>

\* create_entity: the body is decoded and store.create(new_data)? called.
\* A decoding error at column 0 (end of input) makes e.column() - 1
\* underflow: the thread panics holding the guard, which poisons the mutex.
create_entity_create(c) ==
  /\ pc[c] = "op"
  /\ req[c].method = "POST"
  /\ IF req[c].body.kind = "eof"
     THEN /\ poisoned' = [poisoned EXCEPT ![H(c)] = TRUE]
          /\ lock' = [lock EXCEPT ![H(c)] = NoOne]
          /\ ThreadEnds(c, "crashed")
          /\ UNCHANGED items
     ELSE IF req[c].body.kind # "json"
     THEN /\ Respond(c, from_error(Err("Parse", 0,
                 "failed to deserialize request body")), "write_err")
          /\ lock' = [lock EXCEPT ![H(c)] = NoOne]
          /\ UNCHANGED <<items, poisoned, req, mwi, snap>>
     ELSE \E it \in Instances(object_from_json(req[c].body.obj), Ident(c)) :
            LET r == create(items[H(c)], it, Ident(c)) IN
            IF r.ret.ok
            THEN /\ items' = [items EXCEPT ![H(c)] = r.items]
                 /\ pc' = [pc EXCEPT ![c] = "save"]
                 /\ UNCHANGED <<res, lock, poisoned, req, mwi, snap>>
            ELSE /\ Respond(c, from_error(r.ret), "write_err")
                 /\ lock' = [lock EXCEPT ![H(c)] = NoOne]
                 /\ UNCHANGED <<items, poisoned, req, mwi, snap>>
  /\ UNCHANGED <<file, mwlock, last, router, workload, sent, middlewares, mwpoisoned, buf>>

\* a plausible slip: the record is acknowledged with 200 OK
Created_ok(item) ==
  with_body(with_header(with_status(Response_default, 200),
                        "Content-Type", "application/json"),
            TextBody(IF id_field(item).some THEN Display(id_field(item).v)
                     ELSE "-1"))

\* the 201 answer of create_entity
Created(item) ==
  with_body(with_header(with_status(Response_default, 201),
                        "Content-Type", "application/json"),
            TextBody(IF id_field(item).some THEN Display(id_field(item).v)
                     ELSE "-1"))

\* create_entity: store.save()? and the 201 answer; the guard is dropped
create_entity_save(c) ==
  /\ pc[c] = "save"
  /\ file' = [file EXCEPT ![PathOf(H(c))] = save(items[H(c)])]
  /\ Respond(c, Created(items[H(c)][Len(items[H(c)])]), "write")
  /\ lock' = [lock EXCEPT ![H(c)] = NoOne]
  /\ UNCHANGED <<items, poisoned, mwlock, req, mwi, snap, last, router, workload, sent, middlewares, mwpoisoned, buf>>

\* the clients of this run may close their side of the connection at any
\* time, so that a call on the stream can fail
PeerMayLeave == workload = ImpatientClients

\* the error of a failed call on the stream
StreamError == Err("IO", 0, "Broken pipe (os error 32)")

\* what stream.write(&buf)?; stream.flush()?; stream.shutdown(Both)? can
\* come to: all succeed, write fails, or flush or shutdown fails after the
\* response was written
StreamOutcomes ==
  IF PeerMayLeave THEN {"ok", "write_failed", "close_failed"} ELSE {"ok"}

\* Server::handle_request: stream.write, flush, shutdown; the error of a
\* failed call is returned to Server::listen
write_response(c) ==
  /\ pc[c] = "write"
  /\ \E o \in StreamOutcomes :
       /\ sent' = [sent EXCEPT ![c] = IF o = "write_failed" THEN @ ELSE @ + 1]
       /\ IF o = "ok" THEN ThreadEnds(c, "done")
          ELSE /\ Respond(c, from_error(StreamError), "write_err")
               /\ UNCHANGED <<req, mwi, snap>>
  /\ UNCHANGED <<items, file, lock, poisoned, mwlock, last, router, workload, middlewares, mwpoisoned, buf>>

\* Server::listen: the error of handle_request is turned into a response
\* and written to the stream; a failure to write it is logged
write_error(c) ==
  /\ pc[c] = "write_err"
  /\ \E ok \in (IF PeerMayLeave THEN BOOLEAN ELSE {TRUE}) :
       sent' = [sent EXCEPT ![c] = IF ok THEN @ + 1 ELSE @]
  /\ ThreadEnds(c, "done")
  /\ UNCHANGED <<items, file, lock, poisoned, mwlock, last, router, workload, middlewares, mwpoisoned, buf>>

Next ==
  \E c \in Conns :
    \/ accept(c)
    \/ mw_try_lock(c)
    \/ mw_execute(c)
    \/ dispatch(c)
    \/ entity_lock(c)
    \/ entity_load(c)
    \/ load_entity_find(c)
    \/ create_entity_create(c)
    \/ create_entity_save(c)
    \/ write_response(c)
    \/ write_error(c)

Spec == Init /\ [][Next]_vars

(***************************************************************************)
(* Properties                                                              *)
(***************************************************************************)
\* the path a request addresses: its target up to the query string, the
\* whole target when there is none
path_or_target(target) ==
  IF split_once(target, "?").some THEN Some(split_once(target, "?").v[1])
  ELSE Some(target)
\* the connection's response is decided and its thread is about to write it
Answered(c) == pc[c] \in {"write", "write_err"}
\* the connection holds the store lock of its handler
InStore(c) == pc[c] \in {"load", "op", "save"}
\* the key of a JSON object that names the identifier, if any
JsonIdKeys(o, identifier) ==
  {k \in DOMAIN o : Lower(k) = Lower(identifier)}
\* the connection sent a POST of a record with an identifier field to the
\* endpoint of route h (the target taken up to its query string)
PostsRecord(c, h) ==
  /\ req[c].method = "POST"
  /\ path_or_target(req[c].target).v = Routes[h].endpoint
  /\ req[c].body.kind = "json"
  /\ JsonIdKeys(req[c].body.obj, Routes[h].identifier) # {}
\* the text of the identifier of the record the connection posts
PostedId(c, h) ==
  Display(try_from_json(req[c].body.obj[
    CHOOSE k \in JsonIdKeys(req[c].body.obj, Routes[h].identifier) : TRUE]))
\* the records of a JSON list whose identifier renders as text t
RecordsWithId(recs, identifier, t) ==
  {i \in 1..Len(recs) :
     \E k \in JsonIdKeys(recs[i], identifier) :
        Display(try_from_json(recs[i][k])) = t}

\* C1: for one store-backed handler, at most one connection at a time is
\* between acquiring the handler's Store lock and returning from the handler
C1_StoreSerialized ==
  \A h \in Handlers :
    Cardinality({c \in Conns : InStore(c) /\ H(c) = h}) <= 1

\* C1 witness: one connection is inside load -> mutate -> save of a store
\* while another waits for the same store's lock
C1_Witness ==
  \E c, d \in Conns : c # d /\ pc[c] = "op" /\ pc[d] = "lock" /\ H(c) = H(d)

\* C2: of the connections that POST records with loosely equal identifiers
\* to one store-backed route (no such record being in the file before), one
\* is answered 201, every other one 409, and the file then holds exactly
\* one record with that identifier
C2_OneCreated ==
  \A h \in Handlers : \A c, d \in Conns :
    (/\ c # d
     /\ Answered(c) /\ Answered(d)
     /\ PostsRecord(c, h) /\ PostsRecord(d, h)
     /\ PostedId(c, h) = PostedId(d, h))
    => /\ {res[c].status, res[d].status} \subseteq {201, 409}
       /\ ~(res[c].status = 201 /\ res[d].status = 201)
       /\ Cardinality(RecordsWithId(file[PathOf(h)].recs,
                                    Routes[h].identifier, PostedId(c, h))) = 1

\* C3: a POST to the route's endpoint (target without a query string) of a
\* record with identifier v is answered 201 with body v when the file holds
\* no such record and 409 when it does (the repeated POST), the record being
\* in the file afterwards; a GET of ?id=v is answered 200 with the stored
\* record when the file read for that request holds it
C3_ScenarioB ==
  \A h \in Handlers : \A c \in Conns :
    /\ (Answered(c) /\ PostsRecord(c, h) /\ req[c].target = Routes[h].endpoint)
       => /\ \/ res[c].status = 201 /\ res[c].body = TextBody(PostedId(c, h))
             \/ res[c].status = 409
          /\ RecordsWithId(file[PathOf(h)].recs, Routes[h].identifier,
                           PostedId(c, h)) # {}
    /\ (/\ Answered(c) /\ req[c].method = "GET"
        /\ path_or_target(req[c].target).v = Routes[h].endpoint
        /\ query_param(req[c].target, Routes[h].identifier).some
        /\ query_param(req[c].target, Routes[h].identifier).v.val.some
        /\ RecordsWithId(snap[c], Routes[h].identifier,
             query_param(req[c].target, Routes[h].identifier).v.val.v) # {})
       => /\ res[c].status = 200
          /\ res[c].body.kind = "json"
          /\ \E i \in 1..Len(snap[c]) : res[c].body.obj = snap[c][i]

\* C4: no two records of a Store have loosely equal identifier values,
\* after any sequence of create, remove, save and load
C4_UniqueIds ==
  \A i, j \in 1..Len(items[S]) :
    (i < j /\ id_field(items[S][i]).some /\ id_field(items[S][j]).some)
    => Display(id_field(items[S][i]).v) # Display(id_field(items[S][j]).v)

\* the stored records whose identifier renders like that of item
StoredLike(its, item) ==
  {i \in 1..Len(its) :
     /\ id_field(its[i]).some
     /\ Display(id_field(its[i]).v) = Display(id_field(item).v)}

\* C5: after a successful create, find on the record's identifier returns
\* the created record, and creates made later leave what find returns for
\* the identifiers already stored unchanged; a create whose identifier is
\* loosely equal to a stored record's fails with Conflict (409) and leaves
\* the record list unchanged
C5_CreateThenFind ==
  [][last'.op = "create" =>
       /\ last'.ret.ok =>
            find(items'[S], id_field(last'.item).v) = Some(last'.item)
       /\ \A i \in 1..Len(items[S]) :
            id_field(items[S][i]).some =>
              find(items'[S], id_field(items[S][i]).v)
                = find(items[S], id_field(items[S][i]).v)
       /\ (id_field(last'.item).some /\ StoredLike(items[S], last'.item) # {})
            => (/\ ~last'.ret.ok
                /\ last'.ret.kind = "Api" /\ last'.ret.status = 409
                /\ items' = items)
    ]_vars

\* C5 witness: two records with different identifiers were created, and a
\* create whose identifier is loosely but not structurally equal to the
\* first record's was refused with Conflict
C5_Witness ==
  /\ last.op = "create"
  /\ ~last.ret.ok /\ last.ret.status = 409
  /\ Len(items[S]) = 2
  /\ find(items[S], id_field(items[S][2]).v) = Some(items[S][2])
  /\ id_field(last.item).v # id_field(items[S][1]).v
  /\ Display(id_field(last.item).v) = Display(id_field(items[S][1]).v)

\* C6: a successful create appends the record at the end of the list and
\* returns its index (the record count before the call); the records
\* already present keep their positions
C6_AppendsInOrder ==
  [][(last'.op = "create" /\ last'.ret.ok) =>
       /\ last'.ret.v = Len(items[S])
       /\ Len(items'[S]) = Len(items[S]) + 1
       /\ items'[S][Len(items[S]) + 1] = last'.item
       /\ \A i \in 1..Len(items[S]) : items'[S][i] = items[S][i]
    ]_vars

\* C6 witness: a second record was created and got index 1
C6_Witness ==
  /\ last.op = "create" /\ last.ret.ok /\ last.ret.v = 1
  /\ Len(items[S]) = 2 /\ items[S][2] = last.item

\* the connection sent a GET to the endpoint of route h
GetsFrom(c, h) ==
  /\ req[c].method = "GET"
  /\ path_or_target(req[c].target).v = Routes[h].endpoint

\* C7: a GET handled by a store-backed route is answered 400 when no query
\* key matches the identifier, a distinct 400 when the key has no value, 404
\* when it has a value and no record's identifier is loosely equal to it,
\* and 200 with the matching record as body otherwise
C7_GetOutcomes ==
  \A h \in Handlers : \A c \in Conns :
    (Answered(c) /\ GetsFrom(c, h)) =>
      LET p == query_param(req[c].target, Routes[h].identifier)
          m == RecordsWithId(snap[c], Routes[h].identifier, p.v.val.v)
      IN  IF ~p.some
          THEN res[c].status = 400 /\ res[c].body = NoParam(Routes[h].identifier).body
          ELSE IF ~p.v.val.some
          THEN /\ res[c].status = 400
               /\ res[c].body = NoValue(Routes[h].identifier).body
               /\ res[c].body # NoParam(Routes[h].identifier).body
          ELSE IF res[c].status = 200
          THEN /\ res[c].body.kind = "json"
               /\ \E i \in m : res[c].body.obj = snap[c][i]
          ELSE res[c].status = 404 /\ m = {}

\* C8: PUT, PATCH and DELETE on a store-backed route fail explicitly and
\* safely: the connection's thread does not crash, the client is sent an
\* error response, and the backing file is left unchanged
C8_UnsupportedFailsSafely ==
  [][\A c \in Conns :
       (/\ pc[c] = "dispatch"
        /\ pc'[c] # "dispatch"
        /\ HandlerOf(c).some
        /\ req[c].method \in {"PUT", "PATCH", "DELETE"})
       => /\ pc'[c] \in {"write", "write_err"}
          /\ res'[c].status >= 400
          /\ file' = file
    ]_vars

\* C9: a POST whose body has no identifier field is treated as having
\* identifier Null: the record is appended, persisted and answered 201,
\* also when other records without an identifier exist
C9_MissingIdAccepted ==
  \A h \in Handlers : \A c \in Conns :
    (/\ Answered(c)
     /\ req[c].method = "POST"
     /\ HandlerOf(c) = Some(h)
     /\ req[c].body.kind = "json"
     /\ JsonIdKeys(req[c].body.obj, Routes[h].identifier) = {}
     /\ ~poisoned[h])
    => /\ res[c].status = 201
       /\ \E i \in 1..Len(file[PathOf(h)].recs) :
            file[PathOf(h)].recs[i] = req[c].body.obj

\* C10: every GET or POST answered from the record list works on the list
\* read from the backing file in the same request, never on the list left
\* in memory by an earlier request; a POST answered 201 has written the
\* file as the records it loaded followed by the new one before the
\* response is produced
C10_ReloadThenPersist ==
  /\ [](\A c \in Conns :
          pc[c] = "op" => json_serialize(items[H(c)]) = snap[c])
  /\ [][\A c \in Conns :
          (pc[c] = "save" /\ pc'[c] # "save")
          => /\ pc'[c] = "write"
             /\ res'[c].status = 201
             /\ file'[PathOf(H(c))] = FileOf(Append(snap[c], req[c].body.obj))
       ]_vars

\* C10 witness: a POST is answered 201 after the records it loaded from the
\* file were written back followed by the new one
C10_Witness ==
  \E c \in Conns :
    /\ pc[c] = "write" /\ res[c].status = 201
    /\ Len(snap[c]) >= 1
    /\ file[PathOf(H(c))].recs = Append(snap[c], req[c].body.obj)

\* the set calls that registered a handler for (endpoint, method)
Registrations(calls, endpoint, method) ==
  {i \in 1..Len(calls) : calls[i].endpoint = endpoint /\ method \in calls[i].methods}

\* C11: Router.dispatch returns a 404 response with no body when no handler
\* is registered for the request's exact, case-sensitive path together
\* with its method; otherwise it invokes exactly the handler of the last
\* set call for that (endpoint, method) pair, once, and no other handler
C11_DispatchLastRegistered ==
  last.op = "dispatch" =>
    LET regs == Registrations(last.calls, path_or_target(last.target).v, last.method)
    IN  IF regs = {}
        THEN /\ last.ret.v.invoked = <<>>
             /\ last.ret.v.res.some
             /\ last.ret.v.res.v.status = 404
             /\ last.ret.v.res.v.body = EmptyBody
        ELSE /\ last.ret.v.invoked =
                  <<last.calls[CHOOSE i \in regs : \A j \in regs : j <= i].h>>
             /\ ~last.ret.v.res.some

\* the server runs only the repository's own middleware
RepoMiddlewares == \A m \in MwIds : middlewares[m] = "Cors"
\* the connection's thread has ended and its stream is closed
Closed(c) == pc[c] \in {"done", "crashed"}
\* the response From<Error> builds for an error of any kind: its status is
\* the error's own (Api) or 500 and its reason the canonical one
ErrorResponse(r) ==
  /\ r.status >= 400
  /\ r.reason = StatusText(r.status)
  /\ r.body.kind = "text"

\* C12: whenever an error is raised for a connection between reading its
\* request and writing its response, the error is converted to a response
\* by the error->response mapping and that response is written before the
\* connection closes (stated for GET and POST, the methods the store
\* handler serves, under the repository's middleware)
C12_ErrorsAnswered ==
  [][RepoMiddlewares =>
       \A c \in Conns :
         (req[c].method \in {"GET", "POST"}) =>
           /\ (pc'[c] = "write_err" /\ pc[c] # "write_err")
                => ErrorResponse(res'[c])
           /\ (pc[c] = "write_err" /\ pc'[c] # "write_err") => pc'[c] = "done"
           /\ (pc'[c] = "crashed") => pc[c] = "crashed"
    ]_vars

\* the header each middleware sets on the response, in registration order
MiddlewareHeaders ==
  [m \in MwIds |-> IF middlewares[m] = "Cors"
                   THEN <<"Access-Control-Allow-Origin", "*">>
                   ELSE <<"X-Custom", "1">>]

\* C13: each connection reads exactly one request, runs the middlewares one
\* after another in registration order, is dispatched (and touches a
\* store) only after every middleware succeeded, then has its response
\* written and is closed without a second request being read
C13_OneRequestInOrder ==
  [][\A c \in Conns :
       /\ (req'[c] # req[c]) => (pc[c] = "idle" \/ Closed(c)')
       /\ pc'[c] = "idle" => pc[c] = "idle"
       /\ (pc'[c] \in {"dispatch", "lock", "load", "op", "save"})
            => (mwi'[c] = Len(middlewares) + 1 /\ res'[c].headers = MiddlewareHeaders)
       /\ (pc[c] = "mw_exec" /\ pc'[c] = "write_err") => UNCHANGED <<items, file, lock>>
       /\ (RepoMiddlewares /\ ~Closed(c) /\ Closed(c)')
            => (pc[c] \in {"write", "write_err"} /\ pc'[c] = "done")
    ]_vars

\* C14: at most one connection at a time executes a given middleware
\* instance, and it does so holding that instance's lock; different
\* instances may execute for different connections at the same time
C14_MiddlewareExclusive ==
  \A m \in MwIds :
    /\ Cardinality({c \in Conns : pc[c] = "mw_exec" /\ mwi[c] = m}) <= 1
    /\ \A c \in Conns : (pc[c] = "mw_exec" /\ mwi[c] = m) => mwlock[m] = c

\* C14 witness: two connections execute two different middleware instances
\* at the same time
C14_Witness ==
  \E c, d \in Conns :
    /\ pc[c] = "mw_exec" /\ pc[d] = "mw_exec"
    /\ mwi[c] # mwi[d]
    /\ mwlock[mwi[c]] = c /\ mwlock[mwi[d]] = d

\* C15: the retry loop on a middleware lock behaves as a blocking acquire:
\* once the holder has given the lock up, normally or by failing, a waiting
\* connection leaves the loop at its next attempt and goes on to execute
\* the middleware
C15_RetryLikeBlocking ==
  \A c \in Conns :
    (pc[c] = "mw_lock" /\ mwlock[mwi[c]] = NoOne)
    => ENABLED <<mw_try_lock(c)>>_vars

\* C16: distinct store-backed handlers are never cross-locked: a request
\* for a Store whose own lock is free acquires it without waiting, whatever
\* other Store is locked by another connection for its load, mutate, save
C16_StoresIndependent ==
  \A c \in Conns :
    (/\ pc[c] = "lock"
     /\ lock[H(c)] = NoOne
     /\ \E d \in Conns : InStore(d) /\ H(d) # H(c))
    => ENABLED <<entity_lock(c)>>_vars

\* C16 witness: two connections are inside load, mutate, save of two
\* different Stores at the same time
C16_Witness ==
  \E c, d \in Conns : InStore(c) /\ InStore(d) /\ H(c) # H(d)

\* Scenario A: HTTP/1.0, 200 OK, Content-Type: application/json, body "test"
ScenarioA ==
  Buffer_with_body(
    with_headers(
      with_start_line(Buffer_default, ResponseStart("HTTP/1.0", 200, Some(<<"OK">>))),
      << <<"Content-Type", <<"application/json">>>> >>),
    <<"test">>)

\* C20: the text written for a Buffer is its start line and a line feed,
\* then one line "name: value" and a line feed per header in the order
\* the headers are stored, then, only when the body is not empty, one empty
\* line and the body bytes; with an empty body the text ends after the last
\* header line.  A Content-Length header that with_body had to add is the
\* last header line.  Scenario A yields exactly
\* "HTTP/1.0 200 OK\nContent-Type: application/json\nContent-Length: 4\n\ntest".
C20_WireFormat ==
  last.op = "write_to" =>
    LET w == last.ret.v
        n == Len(buf.headers)
        head == SubSeq(w, 1, Len(w) - (IF buf.body = <<>> THEN 0
                                       ELSE Len(buf.body) + 1))
        ls == split(head, NL)
    IN  /\ Len(ls) = n + 2
        /\ ls[1] = StartLine_display(buf.start_line)
        /\ \A i \in 1..n :
             ls[i + 1] = <<buf.headers[i][1], COLON, SP>> \o buf.headers[i][2]
        /\ ls[n + 2] = <<>>
        /\ buf.body = <<>> => w = head
        /\ buf.body # <<>> => w = head \o <<NL>> \o buf.body
        /\ (last.prev.op = "with_body" /\ last.prev.had = 0) =>
             ls[n + 1][1] = "Content-Length"
        /\ buf = ScenarioA =>
             Join(w) = "HTTP/1.0 200 OK\nContent-Type: application/json\nContent-Length: 4\n\ntest"

\* Scenario A has been written
C20_Witness ==
  /\ last.op = "write_to"
  /\ buf = ScenarioA
  /\ header(buf, "Content-Length") = Some(<<"4">>)
  /\ Join(last.ret.v) = "HTTP/1.0 200 OK\nContent-Type: application/json\nContent-Length: 4\n\ntest"

\* the casings under which Content-Length is looked up
LengthNames == {"Content-Length", "content-length", "CONTENT-LENGTH"}

\* C19: after with_body or append_body, looking up Content-Length in any
\* casing returns the decimal byte length of the whole body as it is after
\* the call (the given text for with_body, the former body followed by the
\* given text for append_body); a Content-Length header that was there
\* before is overwritten, so the number of such headers does not grow.
C19_ContentLengthFollowsBody ==
  last.op \in {"with_body", "append_body"} =>
    /\ last.op = "with_body" => buf.body = last.v
    /\ last.op = "append_body" =>
         /\ Len(buf.body) >= Len(last.v)
         /\ SubSeq(buf.body, Len(buf.body) - Len(last.v) + 1, Len(buf.body)) = last.v
    /\ \A k \in LengthNames :
         header(buf, k) = Some(<<ToString(byte_len(buf.body))>>)
    /\ Cardinality(Matching(buf, "Content-Length"))
         = (IF last.had = 0 THEN 1 ELSE last.had)

\* append_body has grown a body whose Content-Length header was already
\* there, and the header now holds the new length
C19_Witness ==
  /\ last.op = "append_body"
  /\ last.had = 1
  /\ last.v # <<>>
  /\ Len(buf.body) > Len(last.v)
  /\ Cardinality(Matching(buf, "Content-Length")) = 1
  /\ header(buf, "content-length") = Some(<<ToString(byte_len(buf.body))>>)

\* the last two calls were set_header with names differing only in case
TwoCasings ==
  /\ last.op = "set_header"
  /\ last.prev.op = "set_header"
  /\ last.prev.k # last.k
  /\ eq_ignore_ascii_case(last.prev.k, last.k)

\* C18: after set_header was called twice with names that differ only in
\* letter case, exactly one header matches the name ignoring case, and a
\* lookup by the name in any casing returns the value of the last call.
C18_TwoCasingsOneEntry ==
  TwoCasings =>
    /\ Cardinality(Matching(buf, last.k)) = 1
    /\ \A k \in HeaderNames : header(buf, k) = Some(last.v)

\* C18 as the code has it: after set_header was called twice with names
\* that differ only in letter case, a lookup by the name in any casing
\* returns the value of the last call; exactly one header matches the name
\* when none matched before the two calls, and when several matched before
\* (with_headers and with_header store what they are given) the first of
\* them is overwritten and the others stay.
C18_TwoCasingsOverwriteFirst ==
  TwoCasings =>
    /\ Cardinality(Matching(buf, last.k))
         = (IF last.prev.had = 0 THEN 1 ELSE last.prev.had)
    /\ \A k \in HeaderNames : header(buf, k) = Some(last.v)
    /\ LET i == header_index(buf.headers, last.k, 1)
       IN  /\ i > 0
           /\ buf.headers[i][2] = last.v
           /\ buf.headers[i][1] =
                (IF last.prev.had = 0 THEN last.prev.k ELSE buf.headers[i][1])

\* two calls with different casings on a Buffer without such a header:
\* one entry, under the name of the first call, holding the last value
C18_Witness ==
  /\ TwoCasings
  /\ last.prev.had = 0
  /\ last.had = 1
  /\ Cardinality(Matching(buf, last.k)) = 1
  /\ header(buf, last.prev.k) = Some(last.v)

\* a Buffer whose body was set through with_body or append_body: its
\* Content-Length header is the length of its body
ValidBuffer(b) ==
  header(b, "Content-Length") = Some(<<ToString(byte_len(b.body))>>)

\* C17: parsing the text written for a valid Buffer succeeds and yields a
\* Buffer with the same start line, the same header list and the same
\* body, whatever the start line (request or response, reason phrases of
\* several words included), the header list and the body (empty bodies
\* and bodies holding blank lines included).
C17_RoundTrip ==
  (last.op = "from_str" /\ ValidBuffer(buf)) =>
    /\ last.ret.v.ok
    /\ last.ret.v.v.start_line = buf.start_line
    /\ last.ret.v.v.headers = buf.headers
    /\ last.ret.v.v.body = buf.body

\* the positions of the token tok in a text
Positions(text, tok) == {i \in 1..Len(text) : text[i] = tok}
\* the position of the first tok in a text that holds one
First(text, tok) ==
  CHOOSE i \in Positions(text, tok) : \A j \in Positions(text, tok) : i <= j

\* C21: path() returns the target up to its first ?, and the whole target
\* when it holds no ?; query() returns what follows the first ?, and
\* nothing when the target holds no ?.
C21_PathAndQuery ==
  LET t == buf.target IN
  /\ last.op = "path" =>
       last.ret = (IF Positions(t, "?") = {} THEN Some(t)
                   ELSE Some(SubSeq(t, 1, First(t, "?") - 1)))
  /\ last.op = "query" =>
       last.ret = (IF Positions(t, "?") = {} THEN None
                   ELSE Some(SubSeq(t, First(t, "?") + 1, Len(t))))

\* the tokens after the first ? of a target that holds one
QueryOf(t) == SubSeq(t, First(t, "?") + 1, Len(t))
\* the position of the k-th tok of a text
Nth(text, tok, k) ==
  CHOOSE i \in Positions(text, tok) :
    Cardinality({j \in Positions(text, tok) : j <= i}) = k
\* the j-th of the segments the tokens & cut a query into
Segment(q, j) ==
  LET n == Cardinality(Positions(q, "&")) + 1 IN
  SubSeq(q, IF j = 1 THEN 1 ELSE Nth(q, "&", j - 1) + 1,
            IF j = n THEN Len(q) ELSE Nth(q, "&", j) - 1)
\* the pair a segment stands for: cut at its first =, if it has one
PairOf(seg) ==
  IF Positions(seg, "=") = {} THEN [key |-> Join(seg), val |-> None]
  ELSE [key |-> Join(SubSeq(seg, 1, First(seg, "=") - 1)),
        val |-> Some(Join(SubSeq(seg, First(seg, "=") + 1, Len(seg))))]
\* the pairs of a target, in the order of its query
PairsOf(t) ==
  IF Positions(t, "?") = {} THEN <<>>
  ELSE [j \in 1..(Cardinality(Positions(QueryOf(t), "&")) + 1) |->
          PairOf(Segment(QueryOf(t), j))]

\* C22: query_params() gives one (key, value) pair per segment of the
\* query cut at every &, in the order of the query, each segment cut at its
\* first =, a segment without = giving its text as key and no value, and
\* no pair when the target has no query; query_param(name) gives the first
\* pair whose key equals name ignoring case, and nothing when there is none.
C22_QueryParams ==
  LET ps == PairsOf(buf.target)
      hits == {j \in 1..Len(ps) : Lower(ps[j].key) = Lower(last.k)}
  IN  /\ last.op = "query_params" => last.ret = ps
      /\ last.op = "query_param" =>
           last.ret = (IF hits = {} THEN None
                       ELSE Some(ps[CHOOSE j \in hits : \A l \in hits : j <= l]))

\* query_param("id") on the query ID&id= returned the first pair, the key
\* ID without a value, not the later pair of id and the empty value
C22_Witness ==
  /\ last.op = "query_param"
  /\ last.k = "id"
  /\ Len(PairsOf(buf.target)) = 2
  /\ PairsOf(buf.target)[2] = [key |-> "id", val |-> Some("")]
  /\ last.ret = Some([key |-> "ID", val |-> None])

\* C23: the Response made from an error has the status the error carries
\* when its kind is Api, and 500 for every other kind, with the reason the
\* status table gives for that status; its body is the message of the
\* error when it has one, and empty when it has none.
C23_ErrorToResponse ==
  last.op = "from_error" =>
    /\ buf.status = (IF last.e.kind = "Api" THEN last.e.status ELSE 500)
    /\ buf.reason = StatusText(buf.status)
    /\ buf.status = 500 => buf.reason = Some("Internal Server Error")
    /\ buf.status = 409 => buf.reason = Some("Conflict")
    /\ buf.body.text = (IF last.e.msg.some THEN last.e.msg.v ELSE "")
    /\ ~last.e.msg.some => buf.body = EmptyBody

\* an Api error carrying 409 and a message became a 409 Conflict response
\* with that message as body, although the response before was another
C23_Witness ==
  /\ last.op = "from_error"
  /\ last.e = Error_new("Api", 409, Some("boom"))
  /\ last.before = Some("Custom")
  /\ buf.status = 409
  /\ buf.reason = Some("Conflict")
  /\ buf.body = TextBody("boom")

\* C25: after with_status_code(code) the status of the Response is code
\* and its reason is the phrase the status table holds for code, or no
\* reason when the table does not hold code, whatever the reason was before.
C25_StatusCodeSetsReason ==
  last.op = "with_status_code" =>
    /\ buf.status = last.code
    /\ buf.reason =
         (CASE last.code = 200 -> Some("OK")
            [] last.code = 201 -> Some("Created")
            [] last.code = 404 -> Some("Not Found")
            [] last.code = 500 -> Some("Internal Server Error")
            [] OTHER -> None)

\* a Response whose reason had been set by hand got a code the table does
\* not hold, and is left without a reason
C25_Witness ==
  /\ last.op = "with_status_code"
  /\ last.code = 299
  /\ last.before = Some("Gone Fishing")
  /\ buf.status = 299
  /\ buf.reason = None

\* the value of the Content-Type header of the request, if it has one
ContentType(r) ==
  LET hits == {i \in 1..Len(r.headers) :
                 Lower(r.headers[i][1]) = "content-type"}
  IN  IF hits = {} THEN None
      ELSE Some(r.headers[CHOOSE i \in hits : \A j \in hits : i <= j][2])
\* the payload format a Content-Type value names, if any
FormatOf(ct) == {f \in Formats : Lower(ct) = "application/" \o f}

Piece(text, tok, j) ==
  LET n == Cardinality(Positions(text, tok)) + 1 IN
  SubSeq(text, IF j = 1 THEN 1 ELSE Nth(text, tok, j - 1) + 1,
               IF j = n THEN Len(text) ELSE Nth(text, tok, j) - 1)
\* the number of words single spaces cut a line into, and the j-th of them
Words(line) == Cardinality(Positions(line, SP)) + 1
Word(line, j) == Join(Piece(line, SP, j))
IsMethod(w) ==
  Lower(w) \in {"post", "get", "put", "patch", "delete", "head", "options"}
IsVersion(w) == Lower(w) \in {"http/1.0", "http/1.1", "http/2"}

\* C26: parsing a start line fails when single spaces cut it into fewer
\* than two words; a line whose first word does not begin with HTTP is
\* parsed as a request line, and that succeeds exactly when the first word
\* is one of the seven methods ignoring case and there is a third word
\* that is a known version; the target is then the second word as written.
C26_RequestLine ==
  last.op = "StartLine" =>
    LET ret == last.ret.v IN
    /\ Words(buf) < 2 => ~ret.ok
    /\ (Words(buf) >= 2 /\ ~starts_with_HTTP(Word(buf, 1))) =>
         /\ ret.ok <=> /\ IsMethod(Word(buf, 1))
                       /\ Words(buf) >= 3
                       /\ IsVersion(Word(buf, 3))
         /\ ret.ok =>
              /\ ret.v.kind = "request"
              /\ Lower(ret.v.method) = Lower(Word(buf, 1))
              /\ ret.v.target = Word(buf, 2)
              /\ Lower(ret.v.version) = Lower(Word(buf, 3))

\* the line get / http/1.1 was parsed as the request GET / HTTP/1.1
C26_Witness ==
  /\ last.op = "StartLine"
  /\ buf = <<"get", SP, "/", SP, "http/1.1">>
  /\ last.ret.v = Ok(RequestStart("GET", "/", "HTTP/1.1"))

\* the lines of a text: what the line feeds cut it into, without the empty
\* piece after a final line feed
LinesOf(text) ==
  LET n == Cardinality(Positions(text, NL)) + 1
      ls == [j \in 1..n |-> Piece(text, NL, j)]
  IN  IF ls[n] = <<>> THEN SubSeq(ls, 1, n - 1) ELSE ls
\* the positions of the blank lines after the start line
BlankLines(text) == {j \in 2..Len(LinesOf(text)) : LinesOf(text)[j] = <<>>}
FirstBlank(text) ==
  CHOOSE j \in BlankLines(text) : \A l \in BlankLines(text) : j <= l
\* the lines between the start line and the first blank line
HeaderLinesOf(text) ==
  SubSeq(LinesOf(text), 2,
         IF BlankLines(text) = {} THEN Len(LinesOf(text))
         ELSE FirstBlank(text) - 1)
\* the text begins with a line that parses as a start line
StartsWell(text) ==
  /\ LinesOf(text) # <<>>
  /\ StartLine_from_str(LinesOf(text)[1]).ok
\* a text without the spaces it begins with; without those on both sides
StripLeading(a) ==
  LET ink == {i \in 1..Len(a) : a[i] # SP} IN
  IF ink = {} THEN <<>>
  ELSE SubSeq(a, CHOOSE i \in ink : \A j \in ink : i <= j, Len(a))
StripBoth(a) ==
  LET ink == {i \in 1..Len(a) : a[i] # SP} IN
  IF ink = {} THEN <<>>
  ELSE SubSeq(a, CHOOSE i \in ink : \A j \in ink : i <= j,
                 CHOOSE i \in ink : \A j \in ink : j <= i)
\* the name of a header line, and what follows its first colon
NameOf(line) == Join(SubSeq(line, 1, First(line, COLON) - 1))
AfterColon(line) == SubSeq(line, First(line, COLON) + 1, Len(line))

BodyLinesOf(text) ==
  IF BlankLines(text) = {} THEN <<>>
  ELSE SubSeq(LinesOf(text), FirstBlank(text) + 1, Len(LinesOf(text)))

\* C28: when a message is parsed, its body is the lines after the first
\* blank line joined by line feeds, in their order, later blank lines
\* included; none of them is dropped and none becomes a header.
C28_BodyKeepsLines ==
  (last.op = "Buffer" /\ StartsWell(buf) /\ last.ret.v.ok) =>
    /\ last.ret.v.v.body = join_lines(BodyLinesOf(buf))
    /\ Len(last.ret.v.v.headers) = Len(HeaderLinesOf(buf)) + 1

\* C29: a JSON number becomes Unsigned when it is a u64, else Integer when
\* it is an i64, else Float, with its value; the same number read from
\* YAML becomes the same variant with the same value.
C29_NumberClassification ==
  last.op = "from_number" =>
    /\ last.ret.v.json =
         (IF buf.n = "PosInt" THEN Unsigned(buf.hi, buf.lo)
          ELSE IF buf.n = "NegInt" THEN Integer(0, buf.lo)
          ELSE Float(buf.x))
    /\ last.ret.v.yaml = last.ret.v.json

RECURSIVE HasNull(_)
\* the Value is Null, or a Map or Array holding Null at some depth
HasNull(v) ==
  CASE v.t = "Null" -> TRUE
    [] v.t = "Map" -> \E k \in DOMAIN v.m : HasNull(v.m[k])
    [] v.t = "Array" -> \E i \in 1..Len(v.a) : HasNull(v.a[i])
    [] OTHER -> FALSE

\* C30: to_toml fails exactly for the Values that are Null or hold Null
\* at some depth of a Map or Array; an Integer or Unsigned is emitted as
\* the signed 64-bit integer congruent to it modulo 2^64, so that the
\* conversion back gives the same integer exactly when the value lies in
\* the signed 64-bit range.
C30_TomlNullAndNarrowing ==
  /\ last.op = "to_toml" =>
       /\ last.ret.v.ok <=> ~HasNull(buf)
       /\ buf.t \in {"Integer", "Unsigned"} =>
            last.ret.v.v = TInteger(buf.lo)
  /\ (last.op = "through_toml" /\ buf.t \in {"Integer", "Unsigned"}) =>
       /\ last.ret.some
       /\ last.ret.v.t = "Integer"
       /\ (last.ret.v.hi = buf.hi /\ last.ret.v.lo = buf.lo) <=> buf.hi = 0

\* to_toml failed on an Array holding a Map that holds Null, and the
\* Unsigned 2^64 - 1 came back from TOML as the Integer -1
C30_Witness ==
  \/ /\ last.op = "to_toml"
     /\ buf = Array(<<String("x"), Map([k \in {"a"} |-> Null])>>)
     /\ last.ret.v = NoNullInToml
  \/ /\ last.op = "through_toml"
     /\ buf = Unsigned(1, -1)
     /\ last.ret = Some(Integer(0, -1))

\* the i-th element from the front of the native sequence
FromFront(n, i) ==
  IF n.ty = "VecDeque" THEN n.ring[((n.head + (i - 1)) % Len(n.ring)) + 1]
  ELSE n.a[i]
SizeOf(n) == IF n.ty = "VecDeque" THEN n.len ELSE Len(n.a)
WidthOf(ty) == IF ty \in {"i8", "u8"} THEN 8 ELSE 16

\* C31: Value::from gives the variant matching the native type with the
\* same content: Bool, Float, Integer for every signed width (the number
\* the bits denote in two's complement), Unsigned for every unsigned
\* width, String, Map with the same entries, Array with the same elements
\* in the same order.
C31_FromNative ==
  last.op = "from" =>
    LET v == last.ret.v IN
    CASE buf.ty = "bool" -> v = Bool(buf.b)
      [] buf.ty \in {"f32", "f64"} -> v = Float(buf.x)
      [] buf.ty \in {"i8", "i16"} ->
           /\ v.t = "Integer" /\ v.hi = 0
           /\ v.lo \in -(2 ^ (WidthOf(buf.ty) - 1))..(2 ^ (WidthOf(buf.ty) - 1) - 1)
           /\ (v.lo - buf.bits) % (2 ^ WidthOf(buf.ty)) = 0
      [] buf.ty \in {"u8", "u16"} ->
           /\ v.t = "Unsigned" /\ v.hi = 0
           /\ v.lo \in 0..(2 ^ WidthOf(buf.ty) - 1)
           /\ (v.lo - buf.bits) % (2 ^ WidthOf(buf.ty)) = 0
      [] buf.ty \in {"i32", "i64", "i128"} -> v = Integer(buf.hi, buf.lo)
      [] buf.ty \in {"u32", "u64", "u128"} -> v = Unsigned(buf.hi, buf.lo)
      [] buf.ty \in {"str", "String"} -> v = String(buf.str)
      [] buf.ty \in {"HashMap", "BTreeMap"} ->
           /\ v.t = "Map"
           /\ DOMAIN v.m = DOMAIN buf.m
           /\ \A k \in DOMAIN buf.m : v.m[k] = buf.m[k]
      [] OTHER ->
           /\ v.t = "Array"
           /\ Len(v.a) = SizeOf(buf)
           /\ \A i \in 1..SizeOf(buf) : v.a[i] = FromFront(buf, i)

\* the i8 with the bits of -42 became Integer(-42), or a VecDeque whose
\* head is not at the start of its buffer became an Array in queue order
C31_Witness ==
  /\ last.op = "from"
  /\ \/ buf = NBits("i8", 214) /\ last.ret.v = Integer(0, -42)
     \/ /\ buf = VecDeque(Elements, 2, 3)
        /\ last.ret.v = Array(<<Bool(TRUE), Integer(0, 42), String("x")>>)

\* C32: once the Server is constructed no step of handling a connection
\* changes the Router's mapping from (endpoint, method) to handler.
C32_RouterReadOnly == [][router' = router]_vars

\* every connection was handled to the end, a store handler saved a
\* record, and the mapping is still the constructed one
C32_Witness ==
  /\ \A c \in Conns : pc[c] = "done"
  /\ router = with_routes(Routes)
  /\ handler(router, "POST", <<"/users">>) = Some(1)
  /\ \E p \in Paths : file[p].recs # <<>>

\* the reads answered so far were all full blocks
AllFull(n) == \A i \in 1..n : buf.stream[i] = BUF_SIZE
\* the number of bytes gathered
RECURSIVE ByteCount(_)
ByteCount(bs) == IF bs = <<>> THEN 0 ELSE Head(bs).len + ByteCount(Tail(bs))

\* C33: from_reader reads blocks of 255 bytes and stops at the first read
\* that returns fewer than 255 bytes; the bytes parsed are the blocks read,
\* in order; after every full block, also when the bytes gathered are an
\* exact multiple of 255, it asks for another block, and it leaves the
\* loop as soon as a read gives a short block.
C33_ReadsUntilShortBlock ==
  /\ BUF_SIZE = 255
  /\ buf.at = "loop" =>
       /\ AllFull(buf.pos)
       /\ ByteCount(buf.bytes) = BUF_SIZE * buf.pos
       /\ buf.pos < Len(buf.stream) => ENABLED from_reader_read
  /\ (buf.at = "parse" \/ (buf.at = "returned" /\ last.v.ok)) =>
       /\ buf.pos >= 1
       /\ AllFull(buf.pos - 1)
       /\ buf.stream[buf.pos] \in 0..(BUF_SIZE - 1)
  /\ buf.at # "returned" \/ last.v.ok =>
       /\ Len(buf.bytes) = buf.pos
       /\ \A i \in 1..buf.pos :
            buf.bytes[i] = [place |-> i, len |-> buf.stream[i]]
  /\ (buf.at = "returned" /\ last.v.ok) => last.v.v = buf.bytes
  /\ (buf.at = "returned" /\ ~last.v.ok) =>
       /\ buf.stream[buf.pos] = ReadError
       /\ AllFull(buf.pos - 1)

\* a message of exactly two full blocks: a third read was asked for, found
\* the end of the stream, and the two blocks were parsed
C33_Witness ==
  /\ buf.at = "returned"
  /\ buf.stream = <<BUF_SIZE, BUF_SIZE, 0>>
  /\ last = Some(Ok(<<Block(1, BUF_SIZE), Block(2, BUF_SIZE), Block(3, 0)>>))

\* the response carries the header the CORS middleware sets
HasCorsHeader(r) ==
  \E i \in 1..Len(r.headers) : r.headers[i] = <<"Access-Control-Allow-Origin", "*">>

\* C34: a header set by a middleware that succeeded is in the response
\* written to the client: every response handle_request is about to write
\* (from a store handler or the Router's 404) carries the CORS header.
C34_MiddlewareHeadersWritten ==
  \A c \in Conns :
    (pc[c] = "write" /\ \E m \in MwIds : middlewares[m] = "Cors") =>
      HasCorsHeader(res[c])

\* no request is in flight: every connection has its answer, has ended or
\* has not arrived
Quiescent ==
  \A c \in Conns : pc[c] \in {"idle", "write", "write_err", "done", "crashed"}

\* C35: for every route configuration (two routes naming one backing file
\* included), once no request is in flight, the record of every POST
\* answered 201 is in the backing file of its route.
C35_NoAcknowledgedRecordLost ==
  \A c \in Conns :
    (/\ Quiescent
     /\ pc[c] = "write" /\ req[c].method = "POST" /\ res[c].status = 201)
    => \E i \in 1..Len(file[PathOf(H(c))].recs) :
         file[PathOf(H(c))].recs[i] = req[c].body.obj

\* the request is a GET naming the identifier with a value, or a POST of a
\* JSON record
WellFormed(c) ==
  \/ /\ req[c].method = "GET"
     /\ query_param(req[c].target, Ident(c)).some
     /\ query_param(req[c].target, Ident(c)).v.val.some
  \/ req[c].method = "POST" /\ req[c].body.kind = "json"

\* C36: a request that ends in an error never makes its store
\* unavailable: whatever requests were handled before, a well-formed GET
\* or POST that reaches the Store lock of its route acquires it and goes
\* on to load the backing file.
C36_StoreStaysAvailable ==
  [][\A c \in Conns :
       (pc[c] = "lock" /\ pc'[c] # "lock" /\ WellFormed(c))
         => (pc'[c] = "load" /\ lock'[H(c)] = c)
    ]_vars

C38_OneResponsePerConnection == \A c \in Conns : sent[c] <= 1

\* C39: Store.remove(id) removes exactly the record Store.find(id)
\* returns: when find(id) finds a record, remove(id) returns it, the list
\* is left without it, the other records keeping their order, and a
\* following find(id) finds none; this also when the stored identifier and
\* id are loosely but not structurally equal.
C39_RemoveWhatFindFinds ==
  [][last'.op = "remove" =>
       LET i == find_index(items[S], last'.id) IN
       i # 0 =>
         /\ last'.ret = Some(items[S][i])
         /\ items'[S] = SubSeq(items[S], 1, i - 1)
                          \o SubSeq(items[S], i + 1, Len(items[S]))
         /\ ~find(items'[S], last'.id).some
    ]_vars

\* C40: when Store.save fails while serializing the record list (a Null
\* value in a TOML-format store), the backing file holds the contents it
\* had before the call, so that a following load returns the records
\* saved before.
C40_FailedSaveKeepsFile ==
  (last.op = "save" /\ ~last.ret.ok /\ last.before.doc.some)
    => buf.file = last.before

====
